---- MODULE Spec2Model ----
(***************************************************************************)
(* Model of check_zbd.py (ZBDChecker): reconciliation of the monthly       *)
(* attendance sheet ("tabel") against the daily event log ("ZBD").         *)
(*                                                                         *)
(* Text is modelled as sequences of symbols.  Cyrillic letters are written *)
(* in ASCII: a payment character "cV" is the Cyrillic capital Ve, "cv" the *)
(* small one, "B"/"b" are the Latin letters.  Names are sequences of       *)
(* chunks (whole words, " ", "TAB", "-"); every chunk has a character      *)
(* length, so that sorting the ranks by len() is the code's sort.          *)
(***************************************************************************)
EXTENDS Integers, Sequences, FiniteSets, TLC

VARIABLES
    pc,                 \* position of the run / of the function under study
    pib_in,             \* argument of _normalize_pib
    pib_out,            \* _normalize_pib(pib_in)
    pib_out2,           \* _normalize_pib(pib_out)
    pay_in,             \* argument of _normalize_payment_value
    pay_out,            \* _normalize_payment_value(pay_in)
    pay_out2,           \* _normalize_payment_value(pay_out)
    position_payments,  \* self.position_payments: position -> payment
    check_month,        \* self.check_year / self.check_month: the reporting period
    records,            \* argument of _get_expected_payment: one person's records
    check_date,         \* argument of _get_expected_payment
    expected,           \* result of _get_expected_payment
    zbd_data,           \* self.zbd_data: raw name line -> list of records
    pib_index,          \* self.pib_index: normalized name -> raw name line
    errors,             \* self.errors
    dates,              \* the day columns of the sheet: list of (col, date)
    row_num,            \* row of the sheet the loop of _check_tabel is at
    row_pib,            \* name read from column C of the last row handled
    row_cells,          \* values read from the day cells of that row
    found_pib,          \* key of zbd_data found for that row, or None
    person_records,     \* records handed to _get_expected_payment for that row
    resolve_calls,      \* calls of _get_expected_payment made for that row
    fill,               \* fills set in the result sheet: (row, col) -> colour
    cell_text,          \* argument of _parse_person_row_from_text: the lines of a cell
    parse_block,        \* argument of _parse_person_row_from_text: the block
    found_count,        \* result of _parse_person_row_from_text
    log,                \* lines written by print (console and log file)
    handles,            \* files and workbooks opened and not closed
    exit_status,        \* status the process exits with, NotExited while it runs
    word_files,         \* the event-log documents of the run, in order
    doc_idx,            \* index of the next document check_files parses
    config_state,       \* what _load_config did: "unset", "none", "loaded", "failed"
    faults,             \* what went wrong with the files of the run
    name_col            \* column C of the sheet from row 2 on, where it is kept

pibVars == <<pib_in, pib_out, pib_out2>>
payVars == <<pay_in, pay_out, pay_out2>>
resVars == <<records, check_date, expected>>
cfgVars == <<position_payments, check_month>>
zbdVars == <<zbd_data, pib_index>>
rowVars == <<row_num, row_pib, row_cells, found_pib, person_records, resolve_calls>>
runVars == <<zbdVars, errors, dates, rowVars, fill>>

parseVars == <<cell_text, parse_block, found_count>>
mainVars ==
    <<log, handles, exit_status, word_files, doc_idx, config_state, faults, name_col>>
extVars == <<parseVars, mainVars>>

vars == <<pc, pibVars, payVars, resVars, cfgVars, runVars, extVars>>

-----------------------------------------------------------------------------
(* Bounds of the model *)

MaxPibLen == 5          \* chunks in a name given to _normalize_pib
MaxPayLen == 3          \* characters in a value given to _normalize_payment_value
MonthLen == 4           \* days in a month of the model's calendar
MaxRecords == 2         \* records in a list given to _get_expected_payment
MaxEvents == 2          \* records extracted from the event log in one run
MaxRows == 1            \* person rows of the sheet
MaxCellRecords == 1     \* records of the person in the single-cell runs
MaxLines == 3           \* lines in a cell given to _parse_person_row_from_text
MaxDocs == 2            \* documents of the event log in one run

-----------------------------------------------------------------------------
(* Generic sequence helpers *)

SeqsUpTo(S, n) == UNION { [1..k -> S] : k \in 0..n }

IsPrefix(p, s) == Len(p) <= Len(s) /\ SubSeq(s, 1, Len(p)) = p

DropFirst(s, n) == SubSeq(s, n + 1, Len(s))

Blank == <<>>


-----------------------------------------------------------------------------
(* Whitespace: str.strip() and re.sub(r'\s+', ' ', s) *)

IsSpace(ch) == ch \in {" ", "TAB"}

RECURSIVE LStrip(_)
LStrip(s) == IF s # <<>> /\ IsSpace(Head(s)) THEN LStrip(Tail(s)) ELSE s

RECURSIVE RStrip(_)
RStrip(s) ==
    IF s # <<>> /\ IsSpace(s[Len(s)]) THEN RStrip(SubSeq(s, 1, Len(s) - 1)) ELSE s

Strip(s) == RStrip(LStrip(s))

\* every maximal run of whitespace becomes one " "
RECURSIVE CollapseSpaces(_)
CollapseSpaces(s) ==
    IF s = <<>> THEN <<>>
    ELSE IF IsSpace(Head(s))
         THEN <<" ">> \o CollapseSpaces(LStrip(s))
         ELSE <<Head(s)>> \o CollapseSpaces(Tail(s))

-----------------------------------------------------------------------------
(* Names: chunks, their character length and str.lower() *)

ChunkLen(c) ==
    CASE c \in {" ", "TAB", "-"} -> 1
      [] c = "shtab" -> 4
      [] c \in {"maior", "armii", "Koval", "Boiko"} -> 5
      [] c \in {"soldat", "kapral", "vodii:"} -> 6
      [] c \in {"starshyi", "serzhant", "Serzhant", "maister", "kapitan",
                "heneral", "ukrainy", "Ukrainy", "vybuly:",
                "Mario-1", "mario-1", "Obstril", "obstril"} -> 7
      [] c \in {"molodshyi", "holovnyi", "pribuly:", "shturman:"} -> 8
      [] c \in {"praporshchyk", "leitenant", "polkovnyk", "provedeno",
                "rotatsiiu"} -> 9
      [] c = "perebuvaly:" -> 11
      [] c = "pidpolkovnyk" -> 12

LowerChunk(c) ==
    CASE c = "Serzhant" -> "serzhant"
      [] c = "Ukrainy" -> "ukrainy"
      [] c = "Koval" -> "koval"
      [] c = "Boiko" -> "boiko"
      [] c = "Mario-1" -> "mario-1"
      [] c = "Obstril" -> "obstril"
      [] OTHER -> c

LowerName(s) == [i \in 1..Len(s) |-> LowerChunk(s[i])]

RECURSIVE NameLen(_)
NameLen(s) == IF s = <<>> THEN 0 ELSE ChunkLen(Head(s)) + NameLen(Tail(s))

\* self.ranks, in the order of the source
ranks == <<
    <<"soldat">>, <<"starshyi", " ", "soldat">>,
    <<"kapral">>, <<"molodshyi", " ", "kapral">>,
    <<"molodshyi", " ", "serzhant">>, <<"serzhant">>,
    <<"starshyi", " ", "serzhant">>, <<"holovnyi", " ", "serzhant">>,
    <<"maister", "-", "serzhant">>, <<"shtab", "-", "serzhant">>,
    <<"praporshchyk">>, <<"starshyi", " ", "praporshchyk">>,
    <<"molodshyi", " ", "leitenant">>, <<"leitenant">>,
    <<"starshyi", " ", "leitenant">>, <<"kapitan">>,
    <<"maior">>, <<"pidpolkovnyk">>, <<"polkovnyk">>,
    <<"heneral", "-", "maior">>, <<"heneral", "-", "leitenant">>,
    <<"heneral", "-", "polkovnyk">>,
    <<"heneral", " ", "armii", " ", "Ukrainy">> >>

RankLens == { NameLen(ranks[i]) : i \in 1..Len(ranks) }

\* sorted(self.ranks, key=len, reverse=True): a stable sort, so ranks of equal
\* length keep the order of self.ranks
RECURSIVE SortedFrom(_)
SortedFrom(n) ==
    IF n = 0 THEN <<>>
    ELSE SelectSeq(ranks, LAMBDA r : NameLen(r) = n) \o SortedFrom(n - 1)

sorted_ranks == SortedFrom(CHOOSE n \in RankLens : \A m \in RankLens : m <= n)

\* the loop over sorted_ranks: the first rank the name starts with is cut off
\* and the rest is stripped; then break
RECURSIVE StripFirstRank(_, _)
StripFirstRank(pib_clean, rs) ==
    IF rs = <<>> THEN pib_clean
    ELSE IF IsPrefix(LowerName(Head(rs)), LowerName(pib_clean))
         THEN Strip(DropFirst(pib_clean, Len(Head(rs))))
         ELSE StripFirstRank(pib_clean, Tail(rs))

\* mutant: the remainder is not stripped again after the rank is cut off
RECURSIVE StripFirstRankNoTrim(_, _)
StripFirstRankNoTrim(pib_clean, rs) ==
    IF rs = <<>> THEN pib_clean
    ELSE IF IsPrefix(LowerName(Head(rs)), LowerName(pib_clean))
         THEN DropFirst(pib_clean, Len(Head(rs)))
         ELSE StripFirstRankNoTrim(pib_clean, Tail(rs))

normalize_pib_NoTrim(pib) ==
    StripFirstRankNoTrim(Strip(CollapseSpaces(pib)), sorted_ranks)

\* mutant: no break, every leading rank is removed
RECURSIVE StripAllRanks(_)
StripAllRanks(pib_clean) ==
    LET once == StripFirstRank(pib_clean, sorted_ranks)
    IN  IF once = pib_clean THEN pib_clean ELSE StripAllRanks(once)

normalize_pib_NoBreak(pib) == StripAllRanks(Strip(CollapseSpaces(pib)))

normalize_pib(pib) == StripFirstRank(Strip(CollapseSpaces(pib)), sorted_ranks)

-----------------------------------------------------------------------------
(* Payment values: Optional[str]; None is a value of its own *)

None == <<"None">>

\* the homoglyph table of _normalize_payment_value
MapChar(ch) ==
    CASE ch = "A" -> "cA" [] ch = "B" -> "cV" [] ch = "C" -> "cS"
      [] ch = "E" -> "cE" [] ch = "H" -> "cN" [] ch = "K" -> "cK"
      [] ch = "M" -> "cM" [] ch = "O" -> "cO" [] ch = "P" -> "cR"
      [] ch = "R" -> "cR" [] ch = "T" -> "cT" [] ch = "X" -> "cH"
      [] ch = "Y" -> "cU" [] ch = "V" -> "cV" [] ch = "Z" -> "cZ"
      [] ch = "3" -> "cZ"
      [] ch = "a" -> "ca" [] ch = "b" -> "cv" [] ch = "c" -> "cs"
      [] ch = "e" -> "ce" [] ch = "h" -> "cn" [] ch = "k" -> "ck"
      [] ch = "m" -> "cm" [] ch = "o" -> "co" [] ch = "p" -> "cr"
      [] ch = "r" -> "cr" [] ch = "t" -> "ct" [] ch = "x" -> "ch"
      [] ch = "y" -> "cu" [] ch = "v" -> "cv" [] ch = "z" -> "cz"
      [] OTHER -> ch

\* str.upper() of one character.  It is the full Unicode case mapping: the
\* upper case of U+1E96 (h with line below) is the two characters
\* "H" + U+0331 (combining macron below).
UpperChar(ch) ==
    CASE ch = "ca" -> <<"cA">> [] ch = "cv" -> <<"cV">> [] ch = "cs" -> <<"cS">>
      [] ch = "ce" -> <<"cE">> [] ch = "cn" -> <<"cN">> [] ch = "ck" -> <<"cK">>
      [] ch = "cm" -> <<"cM">> [] ch = "co" -> <<"cO">> [] ch = "cr" -> <<"cR">>
      [] ch = "ct" -> <<"cT">> [] ch = "ch" -> <<"cH">> [] ch = "cu" -> <<"cU">>
      [] ch = "cz" -> <<"cZ">> [] ch = "cb" -> <<"cB">>
      [] ch = "a" -> <<"A">> [] ch = "b" -> <<"B">> [] ch = "c" -> <<"C">>
      [] ch = "e" -> <<"E">> [] ch = "h" -> <<"H">> [] ch = "k" -> <<"K">>
      [] ch = "m" -> <<"M">> [] ch = "o" -> <<"O">> [] ch = "p" -> <<"P">>
      [] ch = "r" -> <<"R">> [] ch = "t" -> <<"T">> [] ch = "x" -> <<"X">>
      [] ch = "y" -> <<"Y">> [] ch = "v" -> <<"V">> [] ch = "z" -> <<"Z">>
      [] ch = "h_line_below" -> <<"H", "macron_below">>
      [] OTHER -> <<ch>>

RECURSIVE UpperStr(_)
UpperStr(s) == IF s = <<>> THEN <<>> ELSE UpperChar(Head(s)) \o UpperStr(Tail(s))

MapStr(s) == [i \in 1..Len(s) |-> MapChar(s[i])]

normalize_payment_value(value) ==
    IF value = None THEN None
    ELSE LET text == Strip(value)
         IN  IF text = <<>> THEN None ELSE UpperStr(MapStr(text))

-----------------------------------------------------------------------------
(* Dates.  A date is a day number of a calendar whose months all have      *)
(* MonthLen days: month m is the days (m-1)*MonthLen+1 .. m*MonthLen.      *)
(* NoDate is Python's None in a date field, NoMonth an unset period.       *)

NoDate == 0
NoMonth == 0

MonthOf(d) == ((d - 1) \div MonthLen) + 1

\* date(self.check_year, self.check_month, 1)
FirstDayOfMonth(m) == (m - 1) * MonthLen + 1

\* _get_last_day_of_month, for a period that is set
get_last_day_of_month(m) == m * MonthLen

IsDate(d) == d # NoDate

SetMin(S) == CHOOSE x \in S : \A y \in S : x <= y
SetMax(S) == CHOOSE x \in S : \A y \in S : y <= x

-----------------------------------------------------------------------------
(* Positions and the payment lookup *)

NoPayment == None

PosLower(p) == CASE p = "Mario-1" -> "mario-1" [] p = "MARIO-1" -> "mario-1"
                 [] p = "Obstril" -> "obstril" [] OTHER -> p
PosUpper(p) == CASE p = "Mario-1" -> "MARIO-1" [] p = "mario-1" -> "MARIO-1"
                 [] p = "obstril" -> "OBSTRIL" [] p = "Obstril" -> "OBSTRIL"
                 [] p = "rvp" -> "RVP" [] OTHER -> p
PosStrip(p) == CASE p = " Mario-1" -> "Mario-1" [] OTHER -> p

RECURSIVE FirstKnown(_, _)
FirstKnown(candidates, payments) ==
    IF candidates = <<>> THEN NoPayment
    ELSE IF Head(candidates) # "" /\ Head(candidates) \in DOMAIN payments
         THEN payments[Head(candidates)]
         ELSE FirstKnown(Tail(candidates), payments)

\* _lookup_payment
lookup_payment(position, payments) ==
    IF position = "" THEN NoPayment
    ELSE FirstKnown(<<position, PosStrip(position), PosLower(position),
                      PosUpper(position)>>, payments)

-----------------------------------------------------------------------------
(* _get_expected_payment *)

Rec(position, block, event_date) ==
    [position |-> position, block |-> block,
     date_arrival   |-> IF block \in {"obstril", "shturman", "pribuv"}
                        THEN event_date ELSE NoDate,
     date_departure |-> IF block \in {"obstril", "shturman", "vybuv"}
                        THEN event_date ELSE NoDate]

\* departures_by_position[position] and arrivals_by_position[position]; the
\* code keeps them as sorted lists and takes the first / the last element of
\* a filtered list, which is the least / the greatest element of the set
departures_of(recs, position) ==
    { recs[i].date_departure : i \in { j \in 1..Len(recs) :
        recs[j].position = position /\ recs[j].block = "vybuv"
        /\ IsDate(recs[j].date_departure) } }

arrivals_of(recs, position) ==
    { recs[i].date_arrival : i \in { j \in 1..Len(recs) :
        recs[j].position = position /\ recs[j].block = "pribuv"
        /\ IsDate(recs[j].date_arrival) } }

priority_blocks == <<"obstril", "shturman">>

\* does the one-day record r of the given priority kind answer for date d
PriorityHit(r, priority, d) ==
    /\ r.block = priority
    /\ IF priority = "obstril"
       THEN IsDate(r.date_arrival) /\ r.date_arrival = d
       ELSE LET one_day_event == IF IsDate(r.date_arrival)
                                 THEN r.date_arrival ELSE r.date_departure
            IN  IsDate(one_day_event) /\ one_day_event = d

\* the inner loop of the priority pass: index of the first record of the kind
\* dated d, 0 when there is none
RECURSIVE FirstPriorityHit(_, _, _, _)
FirstPriorityHit(recs, priority, d, i) ==
    IF i > Len(recs) THEN 0
    ELSE IF PriorityHit(recs[i], priority, d) THEN i
         ELSE FirstPriorityHit(recs, priority, d, i + 1)

\* mutant: the lists of departures and arrivals are left in the order of the
\* records (no sort at lines 787-790)
IntervalOf_ListOrder(recs, i, m) ==
    LET r == recs[i]
        start0 == IF IsDate(r.date_arrival) THEN r.date_arrival ELSE FirstDayOfMonth(m)
        end0   == IF IsDate(r.date_departure) THEN r.date_departure
                  ELSE get_last_day_of_month(m)
        dep_idx == { j \in 1..Len(recs) :
                       /\ recs[j].position = r.position /\ recs[j].block = "vybuv"
                       /\ IsDate(recs[j].date_departure)
                       /\ recs[j].date_departure >= r.date_arrival }
        end1   == IF r.block = "pribuv" /\ IsDate(r.date_arrival) /\ dep_idx # {}
                     /\ recs[SetMin(dep_idx)].date_departure < end0
                  THEN recs[SetMin(dep_idx)].date_departure ELSE end0
        arr_idx == { j \in 1..Len(recs) :
                       /\ recs[j].position = r.position /\ recs[j].block = "pribuv"
                       /\ IsDate(recs[j].date_arrival)
                       /\ recs[j].date_arrival <= r.date_departure }
        start1 == IF r.block = "vybuv" /\ ~IsDate(r.date_arrival)
                     /\ IsDate(r.date_departure) /\ arr_idx # {}
                  THEN recs[SetMax(arr_idx)].date_arrival ELSE start0
        month_start == FirstDayOfMonth(m)
        month_end   == get_last_day_of_month(m)
    IN  [start_date |-> IF start1 < month_start THEN month_start ELSE start1,
         end_date   |-> IF end1 > month_end THEN month_end ELSE end1]

\* mutant: the interval is not clipped to the period
IntervalOf_Unclipped(recs, i, m) ==
    LET r == recs[i]
        deps == { dep \in departures_of(recs, r.position) : dep >= r.date_arrival }
        arrs == { arr \in arrivals_of(recs, r.position) : arr <= r.date_departure }
    IN  [start_date |-> IF r.block = "pribuv" THEN r.date_arrival
                        ELSE IF arrs # {} THEN SetMax(arrs) ELSE FirstDayOfMonth(m),
         end_date   |-> IF r.block = "vybuv" THEN r.date_departure
                        ELSE IF deps # {} /\ SetMin(deps) < get_last_day_of_month(m)
                        THEN SetMin(deps) ELSE get_last_day_of_month(m)]

\* mutant: a record is paired with its farthest counterpart
IntervalOf_Farthest(recs, i, m) ==
    LET r == recs[i]
        deps == { dep \in departures_of(recs, r.position) : dep >= r.date_arrival }
        arrs == { arr \in arrivals_of(recs, r.position) : arr <= r.date_departure }
    IN  [start_date |-> IF r.block = "pribuv" THEN r.date_arrival
                        ELSE IF arrs # {} THEN SetMin(arrs) ELSE FirstDayOfMonth(m),
         end_date   |-> IF r.block = "vybuv" THEN r.date_departure
                        ELSE IF deps # {} THEN SetMax(deps)
                        ELSE get_last_day_of_month(m)]

\* the interval [start_date, end_date] the interval pass gives record i
IntervalOf(recs, i, m) ==
    LET r == recs[i]
        start0 == IF IsDate(r.date_arrival) THEN r.date_arrival ELSE FirstDayOfMonth(m)
        end0   == IF IsDate(r.date_departure) THEN r.date_departure
                  ELSE get_last_day_of_month(m)
        possible_departures ==
            { dep \in departures_of(recs, r.position) : dep >= r.date_arrival }
        end1   == IF r.block = "pribuv" /\ IsDate(r.date_arrival)
                     /\ possible_departures # {}
                     /\ SetMin(possible_departures) < end0
                  THEN SetMin(possible_departures) ELSE end0
        possible_arrivals ==
            { arr \in arrivals_of(recs, r.position) : arr <= r.date_departure }
        start1 == IF r.block = "vybuv" /\ ~IsDate(r.date_arrival)
                     /\ IsDate(r.date_departure) /\ possible_arrivals # {}
                  THEN SetMax(possible_arrivals) ELSE start0
        month_start == FirstDayOfMonth(m)
        month_end   == get_last_day_of_month(m)
    IN  [start_date |-> IF start1 < month_start THEN month_start ELSE start1,
         end_date   |-> IF end1 > month_end THEN month_end ELSE end1]

\* mutant: the last record whose interval holds d wins
RECURSIVE FirstIntervalHit_LastMatch(_, _, _, _)
FirstIntervalHit_LastMatch(recs, d, m, i) ==
    IF i > Len(recs) THEN 0
    ELSE LET later == FirstIntervalHit_LastMatch(recs, d, m, i + 1)
         IN  IF later # 0 THEN later
             ELSE IF /\ recs[i].block \notin {"obstril", "shturman"}
                     /\ IntervalOf(recs, i, m).start_date <= d
                     /\ d <= IntervalOf(recs, i, m).end_date
                  THEN i ELSE 0

\* the interval pass: index of the first non-priority record whose interval
\* holds d, 0 when there is none
RECURSIVE FirstIntervalHit(_, _, _, _)
FirstIntervalHit(recs, d, m, i) ==
    IF i > Len(recs) THEN 0
    ELSE IF /\ recs[i].block \notin {"obstril", "shturman"}
            /\ IntervalOf(recs, i, m).start_date <= d
            /\ d <= IntervalOf(recs, i, m).end_date
         THEN i
         ELSE FirstIntervalHit(recs, d, m, i + 1)

\* mutant: the interval pass runs before the priority passes
get_expected_payment_IntervalsFirst(recs, d, m, payments) ==
    LET iv == FirstIntervalHit(recs, d, m, 1)
        sh == FirstPriorityHit(recs, "obstril", d, 1)
        nv == FirstPriorityHit(recs, "shturman", d, 1)
    IN  IF iv # 0 THEN lookup_payment(recs[iv].position, payments)
        ELSE IF sh # 0 THEN lookup_payment(recs[sh].position, payments)
        ELSE IF nv # 0 THEN lookup_payment(recs[nv].position, payments)
        ELSE NoPayment

\* mutant: a bare departure is not paired with the arrival of its position
\* (its interval starts on the first day of the period)
get_expected_payment_NoInference(recs, d, m, payments) ==
    LET sh == FirstPriorityHit(recs, "obstril", d, 1)
        nv == FirstPriorityHit(recs, "shturman", d, 1)
        hits == { i \in 1..Len(recs) :
                    /\ recs[i].block \notin {"obstril", "shturman"}
                    /\ (IF IsDate(recs[i].date_arrival) THEN recs[i].date_arrival
                        ELSE FirstDayOfMonth(m)) <= d
                    /\ d <= IntervalOf(recs, i, m).end_date }
    IN  IF sh # 0 THEN lookup_payment(recs[sh].position, payments)
        ELSE IF nv # 0 THEN lookup_payment(recs[nv].position, payments)
        ELSE IF hits # {} THEN lookup_payment(recs[SetMin(hits)].position, payments)
        ELSE NoPayment

\* the value _get_expected_payment returns, for a period m that is set
get_expected_payment(recs, d, m, payments) ==
    LET sh == FirstPriorityHit(recs, "obstril", d, 1)
        nv == FirstPriorityHit(recs, "shturman", d, 1)
        iv == FirstIntervalHit(recs, d, m, 1)
    IN  IF sh # 0 THEN lookup_payment(recs[sh].position, payments)
        ELSE IF nv # 0 THEN lookup_payment(recs[nv].position, payments)
        ELSE IF iv # 0 THEN lookup_payment(recs[iv].position, payments)
        ELSE NoPayment

-----------------------------------------------------------------------------
(* The configuration of the model: self.position_payments after _load_config *)

Config ==
    [p \in {"Mario-1", "rvp", "vidp", "obstril"} |->
        CASE p = "Mario-1" -> <<"cB">>            \* Cyrillic Be
          [] p = "rvp"     -> <<"p">>             \* Latin p: normalizes to Er
          [] p = "vidp"    -> <<"3", "B", "P">>   \* normalizes to Ze Ve Er
          [] p = "obstril" -> <<"cN">>]           \* Cyrillic En

IdleConfig == position_payments = Config /\ check_month = 1

IdleResolve == records = <<>> /\ check_date = NoDate /\ expected = None

IdlePib == pib_in = Blank /\ pib_out = Blank /\ pib_out2 = Blank

IdlePay == pay_in = None /\ pay_out = None /\ pay_out2 = None

EmptyDict == <<>>

IdleRow ==
    /\ row_num = 2 /\ row_pib = Blank /\ row_cells = EmptyDict
    /\ found_pib = None /\ person_records = <<>> /\ resolve_calls = 0

NotExited == "running"
ExitZero == "exit 0"        \* main returns: status 0
ExitOne == "exit 1"         \* sys.exit(1)

IdleParse == cell_text = <<>> /\ parse_block = "" /\ found_count = 0

IdleMain ==
    /\ log = <<>> /\ handles = {} /\ exit_status = NotExited
    /\ word_files = <<>> /\ doc_idx = 1 /\ config_state = "unset" /\ faults = {}
    /\ name_col = <<>>

IdleExt == IdleParse /\ IdleMain

IdleRun ==
    /\ zbd_data = EmptyDict /\ pib_index = EmptyDict
    /\ errors = <<>> /\ dates = <<>> /\ fill = EmptyDict
    /\ IdleRow

-----------------------------------------------------------------------------
(* Specification SpecResolve: _get_expected_payment on a record list *)

ResolvePositions == {"Mario-1", "obstril"}
Blocks == {"pribuv", "vybuv", "obstril", "shturman"}
MonthDays(m) == FirstDayOfMonth(m)..get_last_day_of_month(m)

ResolveRecords ==
    { Rec(p, b, d) : p \in ResolvePositions, b \in Blocks, d \in MonthDays(1) }

InitResolve ==
    /\ IdleExt
    /\ pc = "resolve"
    /\ records \in SeqsUpTo(ResolveRecords, MaxRecords)
    /\ check_date = NoDate /\ expected = None
    /\ IdleConfig /\ IdleRun /\ IdlePib /\ IdlePay

\* one call of _get_expected_payment(records, d); an unset period is set from d
GetExpectedPayment(d) ==
    /\ pc = "resolve"
    /\ check_date' = d
    /\ check_month' = IF check_month = NoMonth THEN MonthOf(d) ELSE check_month
    /\ expected' = get_expected_payment(records, d, check_month', position_payments)
    /\ pc' = "resolved"
    /\ UNCHANGED <<records, position_payments, pibVars, payVars, runVars>>
    /\ UNCHANGED extVars

NextResolve == \E d \in MonthDays(1) : GetExpectedPayment(d)

SpecResolve == InitResolve /\ [][NextResolve]_vars

-----------------------------------------------------------------------------
(* Specification SpecPairing: _get_expected_payment on the records of a    *)
(* person with four arrivals and departures at one position                *)

PairingPosition == "Mario-1"
PairingBlocks == {"pribuv", "vybuv"}

PairingRecords ==
    { << Rec(PairingPosition, b1, d1), Rec(PairingPosition, b2, d2),
         Rec(PairingPosition, b3, d3), Rec(PairingPosition, b4, d4) >> :
        b1 \in PairingBlocks, b2 \in PairingBlocks,
        b3 \in PairingBlocks, b4 \in PairingBlocks,
        d1 \in MonthDays(1), d2 \in MonthDays(1),
        d3 \in MonthDays(1), d4 \in MonthDays(1) }

InitPairing ==
    /\ IdleExt
    /\ pc = "resolve"
    /\ records \in PairingRecords
    /\ check_date = NoDate /\ expected = None
    /\ IdleConfig /\ IdleRun /\ IdlePib /\ IdlePay

SpecPairing == InitPairing /\ [][NextResolve]_vars

-----------------------------------------------------------------------------
(* Specification SpecPermute: _get_expected_payment on the four records of  *)
(* a person, an arrival and a departure among them, at positions of which   *)
(* two map to one payment                                                   *)

PermutePositions == {"obstril", "Obstril", "Mario-1"}

PermuteRecords ==
    { << Rec(p1, b1, d1), Rec("obstril", b2, d2),
         Rec("obstril", "pribuv", d3), Rec("obstril", "vybuv", d4) >> :
        p1 \in PermutePositions, b1 \in PairingBlocks, b2 \in PairingBlocks,
        d1 \in MonthDays(1), d2 \in MonthDays(1),
        d3 \in MonthDays(1), d4 \in MonthDays(1) }

InitPermute ==
    /\ IdleExt
    /\ pc = "resolve"
    /\ records \in PermuteRecords
    /\ check_date = NoDate /\ expected = None
    /\ IdleConfig /\ IdleRun /\ IdlePib /\ IdlePay

SpecPermute == InitPermute /\ [][NextResolve]_vars

-----------------------------------------------------------------------------
(* Specification SpecClip: _get_expected_payment with the period set to    *)
(* month ClipMonth, on records and dates of the months around it           *)

ClipMonth == 2

\* the days on both sides of the two ends of the period
ClipDays ==
    { FirstDayOfMonth(ClipMonth) - 1, FirstDayOfMonth(ClipMonth),
      get_last_day_of_month(ClipMonth), get_last_day_of_month(ClipMonth) + 1 }

ClipRecords == { Rec(PairingPosition, b, d) : b \in Blocks, d \in ClipDays }

ClipDates ==
    MonthDays(ClipMonth - 1) \cup MonthDays(ClipMonth) \cup MonthDays(ClipMonth + 1)

InitClip ==
    /\ IdleExt
    /\ pc = "resolve"
    /\ records \in SeqsUpTo(ClipRecords, MaxRecords)
    /\ check_date = NoDate /\ expected = None
    /\ position_payments = Config /\ check_month = ClipMonth
    /\ IdleRun /\ IdlePib /\ IdlePay

NextClip == \E d \in ClipDates : GetExpectedPayment(d)

SpecClip == InitClip /\ [][NextClip]_vars

-----------------------------------------------------------------------------
(* _parse_person_row_from_text: the lines of one cell of the event log.    *)
(* A line is a sequence of chunks; "marker in normalized" is the presence  *)
(* of the marker chunk in the lower-cased line.                            *)

Contains(line, chunk) == \E i \in 1..Len(line) : line[i] = chunk

target_marker(block) ==
    CASE block = "obstril"  -> "perebuvaly:"
      [] block = "pribuv"   -> "pribuly:"
      [] block = "shturman" -> "shturman:"
      [] OTHER              -> "vybuly:"

\* lines 441-456: one accepted line becomes one record of zbd_data, and the
\* index entry of its normalized name is (over)written
AddRecord(st, pib, position, block, event_date) ==
    LET rec == Rec(position, block, event_date)
    IN  [zbd |-> IF pib \in DOMAIN st.zbd
                 THEN [st.zbd EXCEPT ![pib] = Append(@, rec)]
                 ELSE (pib :> <<rec>>) @@ st.zbd,
         idx |-> (normalize_pib(pib) :> pib) @@ st.idx,
         found_count |-> st.found_count + 1]

\* mutant: another marker closes the run, the target marker opens a new one
RECURSIVE ParseLines_Reopen(_, _, _, _, _, _)
ParseLines_Reopen(lines, collecting, st, position, block, event_date) ==
    IF lines = <<>> THEN st
    ELSE
      LET line == Strip(Head(lines))
          normalized == LowerName(line)
          rest == Tail(lines)
      IN  IF line = <<>>
            THEN ParseLines_Reopen(rest, collecting, st, position, block, event_date)
          ELSE IF Contains(normalized, target_marker(block))
            THEN ParseLines_Reopen(rest, TRUE, st, position, block, event_date)
          ELSE IF collecting /\ (\/ Contains(normalized, "pribuly:")
                                 \/ Contains(normalized, "vybuly:")
                                 \/ Contains(normalized, "vodii:")
                                 \/ Contains(normalized, "shturman:"))
            THEN ParseLines_Reopen(rest, FALSE, st, position, block, event_date)
          ELSE IF ~collecting
            THEN ParseLines_Reopen(rest, collecting, st, position, block, event_date)
          ELSE IF Contains(normalized, "provedeno") \/ Contains(normalized, "rotatsiiu")
            THEN ParseLines_Reopen(rest, collecting, st, position, block, event_date)
          ELSE IF NameLen(line) < 5
            THEN ParseLines_Reopen(rest, collecting, st, position, block, event_date)
          ELSE ParseLines_Reopen(rest, collecting,
                                 AddRecord(st, line, position, block, event_date),
                                 position, block, event_date)

RECURSIVE ParseLines(_, _, _, _, _, _)
ParseLines(lines, collecting, st, position, block, event_date) ==
    IF lines = <<>> THEN st
    ELSE
      LET line == Strip(Head(lines))
          normalized == LowerName(line)
          rest == Tail(lines)
      IN  IF line = <<>>
            THEN ParseLines(rest, collecting, st, position, block, event_date)
          ELSE IF Contains(normalized, target_marker(block))
            THEN ParseLines(rest, TRUE, st, position, block, event_date)
          ELSE IF collecting /\ (\/ Contains(normalized, "pribuly:")
                                 \/ Contains(normalized, "vybuly:")
                                 \/ Contains(normalized, "vodii:")
                                 \/ Contains(normalized, "shturman:"))
            THEN st
          ELSE IF ~collecting
            THEN ParseLines(rest, collecting, st, position, block, event_date)
          ELSE IF Contains(normalized, "provedeno") \/ Contains(normalized, "rotatsiiu")
            THEN ParseLines(rest, collecting, st, position, block, event_date)
          ELSE IF NameLen(line) < 5
            THEN ParseLines(rest, collecting, st, position, block, event_date)
          ELSE ParseLines(rest, collecting,
                          AddRecord(st, line, position, block, event_date),
                          position, block, event_date)

parse_person_row_from_text(event_date, content_text, position, block, zbd, idx) ==
    ParseLines(content_text, FALSE, [zbd |-> zbd, idx |-> idx, found_count |-> 0],
               position, block, event_date)

RECURSIVE CountRecords(_, _)
CountRecords(zbd, keys) ==
    IF keys = {} THEN 0
    ELSE LET k == CHOOSE x \in keys : TRUE
         IN  Len(zbd[k]) + CountRecords(zbd, keys \ {k})

TotalRecords(zbd) == CountRecords(zbd, DOMAIN zbd)

-----------------------------------------------------------------------------
(* _parse_zbd_word: one document of the event log.  A document is a record *)
(* [file, name_month, raises, tables]: the month its file name names (or   *)
(* NoMonth), where reading it raises ("no", "open": Document() raises,     *)
(* "late": an exception after its tables are processed), and its day       *)
(* tables.  A table is [date, rows]: the date parsed from its cell (2, 0), *)
(* NoDate when _parse_date gives None, and the texts of column 1 of its    *)
(* rows, each a sequence of lines.                                         *)

NoPosition == ""

\* marker in cell_text.lower()
TextHas(text, chunk) == \E i \in 1..Len(text) : Contains(LowerName(text[i]), chunk)

\* the rows of the configuration sheet, in order: the order of the keys of
\* self.position_payments
ConfigKeys == <<"Mario-1", "rvp", "vidp", "obstril", "Obstril">>

\* _is_position_header
is_position_header(text, payments) ==
    \E p \in DOMAIN payments : TextHas(text, PosLower(p))

RECURSIVE FirstKeyIn(_, _, _)
FirstKeyIn(keys, text, payments) ==
    IF keys = <<>> THEN NoPosition
    ELSE IF Head(keys) \in DOMAIN payments /\ TextHas(text, PosLower(Head(keys)))
         THEN Head(keys)
         ELSE FirstKeyIn(Tail(keys), text, payments)

\* _extract_position, for a text that is a position header
extract_position(text, payments) == FirstKeyIn(ConfigKeys, text, payments)

\* one call of _parse_person_row_from_text from a row: st = [zbd, idx, position]
ParseBlock(st, event_date, text, block) ==
    LET r == parse_person_row_from_text(event_date, text, st.position, block,
                                        st.zbd, st.idx)
    IN  [zbd |-> r.zbd, idx |-> r.idx, position |-> st.position]

\* mutant: the section is parsed also when no position header was seen
ParseBlockIf_NoPosition(st, event_date, text, marker, block) ==
    IF TextHas(text, marker)
    THEN ParseBlock(st, event_date, text, block)
    ELSE st

ParseBlockIf(st, event_date, text, marker, block) ==
    IF TextHas(text, marker) /\ st.position # NoPosition
    THEN ParseBlock(st, event_date, text, block)
    ELSE st

\* mutant: a row with "perebuvaly:" is a shelling row under every position
parse_table_row_AnyPosition(st, event_date, text, payments) ==
    IF text = <<>> THEN st
    ELSE
      LET st1 == IF is_position_header(text, payments)
                 THEN [st EXCEPT !.position = extract_position(text, payments)]
                 ELSE st
      IN  IF st1.position # NoPosition /\ TextHas(text, "perebuvaly:")
          THEN ParseBlock(st1, event_date, text, "obstril")
          ELSE ParseBlockIf(
                 ParseBlockIf(
                   ParseBlockIf(st1, event_date, text, "pribuly:", "pribuv"),
                   event_date, text, "vybuly:", "vybuv"),
                 event_date, text, "shturman:", "shturman")

\* lines 306-358: one row of a day table
parse_table_row(st, event_date, text, payments) ==
    IF text = <<>> THEN st
    ELSE
      LET st1 == IF is_position_header(text, payments)
                 THEN [st EXCEPT !.position = extract_position(text, payments)]
                 ELSE st
      IN  IF st1.position = "obstril" /\ TextHas(text, "perebuvaly:")
          THEN ParseBlock(st1, event_date, text, "obstril")
          ELSE ParseBlockIf(
                 ParseBlockIf(
                   ParseBlockIf(st1, event_date, text, "pribuly:", "pribuv"),
                   event_date, text, "vybuly:", "vybuv"),
                 event_date, text, "shturman:", "shturman")

RECURSIVE parse_table_rows(_, _, _, _)
parse_table_rows(st, event_date, rows, payments) ==
    IF rows = <<>> THEN st
    ELSE parse_table_rows(parse_table_row(st, event_date, Head(rows), payments),
                          event_date, Tail(rows), payments)

\* mutant: every parsed event date sets the period
set_period_Latest(month, event_date) == MonthOf(event_date)

\* lines 288-292: the first parsed event date sets an unset period
set_period(month, event_date) ==
    IF month = NoMonth THEN MonthOf(event_date) ELSE month

\* lines 259-265: the month of the file name is taken only when the object
\* has no attribute check_month; __init__ sets the attribute (to None), so
\* hasattr(self, 'check_month') holds for every ZBDChecker
HasAttrCheckMonth == TRUE

period_from_filename(month, name_month) ==
    IF name_month # NoMonth /\ ~HasAttrCheckMonth THEN name_month ELSE month

\* lines 272-358: the day tables of a document, st = [zbd, idx, month]
RECURSIVE parse_tables(_, _, _)
parse_tables(st, tables, payments) ==
    IF tables = <<>> THEN st
    ELSE LET t == Head(tables)
         IN  IF t.date = NoDate
             THEN parse_tables(st, Tail(tables), payments)
             ELSE LET r == parse_table_rows(
                              [zbd |-> st.zbd, idx |-> st.idx, position |-> NoPosition],
                              t.date, t.rows, payments)
                  IN  parse_tables([zbd |-> r.zbd, idx |-> r.idx,
                                    month |-> set_period(st.month, t.date)],
                                   Tail(tables), payments)

\* mutant: the exception is swallowed without an entry in self.errors
parse_zbd_word_Silent(st, doc, payments) ==
    LET r == parse_tables([zbd |-> st.zbd, idx |-> st.idx, month |-> st.month],
                          IF doc.raises = "open" THEN <<>> ELSE doc.tables, payments)
    IN  [zbd |-> r.zbd, idx |-> r.idx, month |-> r.month, errors |-> st.errors]

\* _parse_zbd_word: st = [zbd, idx, month, errors]
parse_zbd_word(st, doc, payments) ==
    LET m0 == period_from_filename(st.month, doc.name_month)
        failed == Append(st.errors, [kind |-> "word_error", file |-> doc.file])
    IN  IF doc.raises = "open"
        THEN [zbd |-> st.zbd, idx |-> st.idx, month |-> m0, errors |-> failed]
        ELSE LET r == parse_tables([zbd |-> st.zbd, idx |-> st.idx, month |-> m0],
                                   doc.tables, payments)
             IN  [zbd |-> r.zbd, idx |-> r.idx, month |-> r.month,
                  errors |-> IF doc.raises = "late" THEN failed ELSE st.errors]

-----------------------------------------------------------------------------
(* Specification SpecParse: _parse_person_row_from_text on the lines of    *)
(* one cell, for each block, with an empty event index                     *)

ParseLineSet ==
    { <<>>,                                             \* a blank line
      <<"pribuly:">>, <<"vybuly:">>, <<"perebuvaly:">>,  \* marker lines
      <<"pribuly:", " ", "Serzhant", " ", "Koval">>,    \* marker, then a name
      <<"vodii:", " ", "Boiko">>,
      <<"Serzhant", " ", "Koval">>, <<" ", "Boiko">>,   \* name lines
      <<"shtab">>,                                      \* shorter than 5
      <<"provedeno", " ", "rotatsiiu">> }               \* a control phrase

ParsePosition == "Mario-1"
ParseDate == FirstDayOfMonth(1)

InitParse ==
    /\ IdleMain
    /\ pc = "parse"
    /\ cell_text \in SeqsUpTo(ParseLineSet, MaxLines)
    /\ parse_block \in Blocks
    /\ found_count = 0
    /\ IdleConfig /\ IdleRun /\ IdlePib /\ IdlePay /\ IdleResolve

\* one call _parse_person_row_from_text(event_date, content_text, position, block)
ParsePersonRowFromText ==
    /\ pc = "parse"
    /\ LET r == parse_person_row_from_text(ParseDate, cell_text, ParsePosition,
                                           parse_block, zbd_data, pib_index)
       IN  /\ zbd_data' = r.zbd
           /\ pib_index' = r.idx
           /\ found_count' = r.found_count
    /\ pc' = "parsed"
    /\ UNCHANGED <<cell_text, parse_block, mainVars, errors, dates, rowVars, fill,
                   cfgVars, pibVars, payVars, resVars>>

NextParse == ParsePersonRowFromText

SpecParse == InitParse /\ [][NextParse]_vars

-----------------------------------------------------------------------------
(* Specification SpecSections: _parse_person_row_from_text on cells of up   *)
(* to MaxSectionLines lines that hold arrival and departure sections         *)

MaxSectionLines == 6

SectionLineSet ==
    { <<"pribuly:">>, <<"vybuly:">>,
      <<"Serzhant", " ", "Koval">>, <<"Boiko">> }

InitSections ==
    /\ IdleMain
    /\ pc = "parse"
    /\ cell_text \in SeqsUpTo(SectionLineSet, MaxSectionLines)
    /\ parse_block \in {"pribuv", "vybuv"}
    /\ found_count = 0
    /\ IdleConfig /\ IdleRun /\ IdlePib /\ IdlePay /\ IdleResolve

SpecSections == InitSections /\ [][NextParse]_vars

-----------------------------------------------------------------------------
(* The reconciliation driver: _check_tabel and _check_person_in_tabel *)

NoFill == "none"
Red    == "FFCCCC"
Green  == "CCFFCC"
White  == "FFFFFF"

NameCol == 3

Sentinels == { <<"cR">>, <<"cZ", "cV", "cR">> }      \* 'Р', 'ЗВР'
MustExplain == { <<"cB">>, <<"cN">> }                \* 'Б', 'Н'

\* mutant: the normalized index is asked first
FindPib_IndexFirst(pib, zbd, idx) ==
    IF normalize_pib(pib) \in DOMAIN idx THEN idx[normalize_pib(pib)]
    ELSE IF pib \in DOMAIN zbd THEN pib
    ELSE None

\* the name lookup of _check_tabel: the exact key first, then the index
FindPib(pib, zbd, idx) ==
    IF pib \in DOMAIN zbd THEN pib
    ELSE IF normalize_pib(pib) \in DOMAIN idx THEN idx[normalize_pib(pib)]
    ELSE None

\* str(actual_cell_value).strip() if actual_cell_value is not None else None
RawActual(actual_cell_value) ==
    IF actual_cell_value = None THEN None ELSE Strip(actual_cell_value)

\* mutant: the sentinel test is made on the raw code, before normalization
CheckCell_RawSentinel(pib, check_dt, expected_payment_raw, actual_cell_value) ==
    IF expected_payment_raw \in Sentinels
    THEN [fill |-> NoFill, errs |-> <<>>]
    ELSE LET expected_payment == normalize_payment_value(expected_payment_raw)
             actual_payment   == normalize_payment_value(actual_cell_value)
             mismatch == [kind |-> "mismatch", pib |-> pib, date |-> check_dt,
                          expected |-> expected_payment,
                          actual   |-> actual_payment]
         IN  IF expected_payment # actual_payment
               THEN IF expected_payment = None
                       /\ (\/ actual_payment = None
                           \/ actual_payment \in Sentinels
                           \/ actual_payment \notin MustExplain)
                    THEN [fill |-> White, errs |-> <<>>]
                    ELSE [fill |-> Red, errs |-> <<mismatch>>]
             ELSE IF expected_payment # None
               THEN [fill |-> Green, errs |-> <<>>]
               ELSE [fill |-> NoFill, errs |-> <<>>]

\* mutant: with no expectation every recorded code is reported
CheckCell_NoAllowList(pib, check_dt, expected_payment_raw, actual_cell_value) ==
    LET expected_payment == normalize_payment_value(expected_payment_raw)
        actual_payment   == normalize_payment_value(actual_cell_value)
        mismatch == [kind |-> "mismatch", pib |-> pib, date |-> check_dt,
                     expected |-> expected_payment, actual |-> actual_payment]
    IN  IF expected_payment \in Sentinels
          THEN [fill |-> NoFill, errs |-> <<>>]
        ELSE IF expected_payment # actual_payment
          THEN [fill |-> Red, errs |-> <<mismatch>>]
        ELSE IF expected_payment # None
          THEN [fill |-> Green, errs |-> <<>>]
          ELSE [fill |-> NoFill, errs |-> <<>>]

\* one round of the loop over dates (lines 713-755): the fill the cell gets
\* (NoFill when it is left alone) and the diagnostics appended
CheckCell(pib, check_dt, expected_payment_raw, actual_cell_value) ==
    LET expected_payment == normalize_payment_value(expected_payment_raw)
        actual_payment   == normalize_payment_value(actual_cell_value)
        mismatch == [kind |-> "mismatch", pib |-> pib, date |-> check_dt,
                     expected |-> IF expected_payment # None THEN expected_payment
                                  ELSE expected_payment_raw,
                     actual   |-> IF actual_payment # None THEN actual_payment
                                  ELSE RawActual(actual_cell_value)]
    IN  IF expected_payment \in Sentinels
          THEN [fill |-> NoFill, errs |-> <<>>]
        ELSE IF expected_payment # actual_payment
          THEN IF expected_payment = None
                  /\ (\/ actual_payment = None
                      \/ actual_payment \in Sentinels
                      \/ actual_payment \notin MustExplain)
               THEN [fill |-> White, errs |-> <<>>]
               ELSE [fill |-> Red, errs |-> <<mismatch>>]
        ELSE IF expected_payment # None
          THEN [fill |-> Green, errs |-> <<>>]
          ELSE [fill |-> NoFill, errs |-> <<>>]

\* the loop over dates: st = [fill, errors, calls]
RECURSIVE CheckDates(_, _, _, _, _, _, _, _)
CheckDates(st, i, row, pib, dts, recs, cells, m) ==
    IF i > Len(dts) THEN st
    ELSE LET col == dts[i][1]
             check_dt == dts[i][2]
             raw == get_expected_payment(recs, check_dt, m, position_payments)
             c == CheckCell(pib, check_dt, raw, cells[col])
         IN  CheckDates([fill   |-> IF c.fill = NoFill THEN st.fill
                                    ELSE (<<row, col>> :> c.fill) @@ st.fill,
                         errors |-> st.errors \o c.errs,
                         calls  |-> st.calls + 1],
                        i + 1, row, pib, dts, recs, cells, m)

\* mutant: a row that is not found paints its day cells as well
check_person_in_tabel_PaintRow(st, row, pib, dts, found, cells, zbd, m) ==
    IF found = None
    THEN [fill   |-> [c \in {<<row, NameCol>>} \cup
                             {<<row, dts[i][1]>> : i \in 1..Len(dts)} |-> Red]
                     @@ st.fill,
          errors |-> Append(st.errors, [kind |-> "not_found", pib |-> pib]),
          calls  |-> 0]
    ELSE CheckDates([fill   |-> (<<row, NameCol>> :> Green) @@ st.fill,
                     errors |-> st.errors, calls |-> 0],
                    1, row, pib, dts, zbd[found], cells, m)

\* _check_person_in_tabel
check_person_in_tabel(st, row, pib, dts, found, cells, zbd, m) ==
    IF found = None
    THEN [fill   |-> (<<row, NameCol>> :> Red) @@ st.fill,
          errors |-> Append(st.errors, [kind |-> "not_found", pib |-> pib]),
          calls  |-> 0]
    ELSE CheckDates([fill   |-> (<<row, NameCol>> :> Green) @@ st.fill,
                     errors |-> st.errors, calls |-> 0],
                    1, row, pib, dts, zbd[found], cells, m)

\* the header of the sheet: E1, F1, ... hold the day numbers 1, 2, ...; a day
\* number becomes date(check_year, check_month, day_number)
FirstDayCol == 5

\* _parse_date_header of a number: the day of that serial number, counted
\* from 30.12.1899, long before every period of the model
ExcelEpoch == 0 - 1000

parse_date_header_number(value) == ExcelEpoch + value

\* lines 580-593, for a header cell that holds the integer day_number of
\* 1..31 and a period that is set: date(check_year, check_month, day_number)
\* raises ValueError when the month has fewer days, the handler then parses
\* the cell with _parse_date_header
day_number_date(day_number, m) ==
    IF day_number <= MonthLen
    THEN FirstDayOfMonth(m) + day_number - 1
    ELSE parse_date_header_number(day_number)

build_dates(n_cols, m) ==
    [i \in 1..n_cols |-> <<FirstDayCol + i - 1, day_number_date(i, m)>>]

DayCols(dts) == { dts[i][1] : i \in 1..Len(dts) }

-----------------------------------------------------------------------------
(* Specification Spec: records are extracted from the event log, then the  *)
(* rows of the sheet are checked                                           *)

KovalS == <<"Serzhant", " ", "Koval">>       \* "Сержант Коваль"
KovalM == <<"maior", " ", "Koval">>          \* "майор Коваль"

ZbdNames == {KovalS, KovalM}
TabelNames == {KovalS, <<"Koval", " ">>, <<"Boiko">>}
EventKinds == { <<"Mario-1", "pribuv">>, <<"obstril", "obstril">> }
EventDays == { FirstDayOfMonth(1), FirstDayOfMonth(1) + 1 }
TabelDayCols == 2
RowValues == { None, <<"cB">> }

\* the rows the sheet may hold: every day cell of a row holds the same value
RowContents(dts) == { [c \in DayCols(dts) |-> v] : v \in RowValues }

Init ==
    /\ IdleExt
    /\ pc = "zbd"
    /\ IdleConfig /\ IdleRun /\ IdlePib /\ IdlePay /\ IdleResolve

\* a call _parse_person_row_from_text(event_date, cell_text, position, block)
\* on a cell that holds the marker line and one name line
ParsePersonRow(event_date, name, position, block) ==
    /\ pc = "zbd"
    /\ TotalRecords(zbd_data) < MaxEvents
    /\ LET r == parse_person_row_from_text(event_date,
                    << <<target_marker(block)>>, name >>,
                    position, block, zbd_data, pib_index)
       IN  zbd_data' = r.zbd /\ pib_index' = r.idx
    /\ UNCHANGED <<pc, errors, dates, rowVars, fill, cfgVars, pibVars, payVars, resVars>>
    /\ UNCHANGED extVars

\* _check_tabel up to its loop: the day columns are read from the header
CheckTabelBegin(n_cols) ==
    /\ pc = "zbd"
    /\ pc' = "tabel"
    /\ dates' = build_dates(n_cols, check_month)
    /\ row_num' = 2
    /\ UNCHANGED <<zbdVars, errors, row_pib, row_cells, found_pib, person_records,
                   resolve_calls, fill, cfgVars, pibVars, payVars, resVars>>
    /\ UNCHANGED extVars

\* mutant: every resolution sets the period from its date
period_after_row_FromDate(month, found, dts) ==
    IF found # None /\ dts # <<>> THEN MonthOf(dts[Len(dts)][2]) ELSE month

\* lines 766-768: the first cell resolved under an unset period sets it
period_after_row(month, found, dts) ==
    IF month = NoMonth /\ found # None /\ dts # <<>>
    THEN MonthOf(dts[1][2]) ELSE month

\* the lines a row prints: the lookup of the first person (lines 630-648)
\* and the debugging lines of every resolution (lines 770-877)
RowLog(row, pib, found, dts) ==
    (IF row = 2
     THEN << [kind |-> "first_pib", pib |-> pib, found |-> found # None] >>
     ELSE <<>>)
    \o (IF found = None THEN <<>>
        ELSE [i \in 1..Len(dts) |->
                [kind |-> "debug_resolve", pib |-> pib, date |-> dts[i][2]]])

\* one round of the loop of _check_tabel, for a row whose name cell holds
\* `name` and whose day cells hold `cells`
CheckRow(name, cells) ==
    /\ pc = "tabel"
    /\ name # <<>>
    /\ LET pib == Strip(name)
           found == FindPib(pib, zbd_data, pib_index)
           period == period_after_row(check_month, found, dates)
           r == check_person_in_tabel([fill |-> fill, errors |-> errors, calls |-> 0],
                                      row_num, pib, dates, found, cells, zbd_data,
                                      period)
       IN  /\ check_month' = period
           /\ log' = log \o RowLog(row_num, pib, found, dates)
           /\ row_pib' = pib
           /\ row_cells' = cells
           /\ found_pib' = found
           /\ person_records' = IF found = None THEN <<>> ELSE zbd_data[found]
           /\ resolve_calls' = r.calls
           /\ fill' = r.fill
           /\ errors' = r.errors
    /\ row_num' = row_num + 1
    /\ UNCHANGED <<pc, zbdVars, dates, position_payments, pibVars, payVars, resVars>>
    /\ UNCHANGED <<parseVars, handles, exit_status, word_files, name_col, doc_idx,
                   config_state, faults>>

\* a round of the loop, for a sheet of at most MaxRows rows
CheckTabelRow(name, cells) ==
    /\ row_num < 2 + MaxRows
    /\ CheckRow(name, cells)

\* the loop meets an empty name cell: the result is saved and the run ends
CheckTabelEnd ==
    /\ pc = "tabel"
    /\ pc' = "done"
    /\ UNCHANGED <<zbdVars, errors, dates, rowVars, fill, cfgVars, pibVars,
                   payVars, resVars>>
    /\ UNCHANGED extVars

Next ==
    \/ \E d \in EventDays : \E name \in ZbdNames : \E k \in EventKinds :
          ParsePersonRow(d, name, k[1], k[2])
    \/ CheckTabelBegin(TabelDayCols)
    \/ \E name \in TabelNames :
          \E cells \in RowContents(dates) : CheckTabelRow(name, cells)
    \/ CheckTabelEnd

Spec == Init /\ [][Next]_vars

-----------------------------------------------------------------------------
(* Specification SpecCell: one found person, one day column, any cell value *)

CellPositions == DOMAIN Config

CellRecords ==
    { Rec(p, "pribuv", FirstDayOfMonth(1)) : p \in CellPositions }
    \cup { Rec("Mario-1", "vybuv", FirstDayOfMonth(1) + 1),
           Rec("obstril", "obstril", FirstDayOfMonth(1) + 1) }

CellValues ==
    { None, <<"cB">>, <<"cN">>, <<"H">>, <<"cR">>, <<"cZ", "cV", "cR">>,
      <<"1">>, <<" ">> }

InitCell ==
    /\ IdleExt
    /\ pc = "tabel"
    /\ IdleConfig /\ IdlePib /\ IdlePay /\ IdleResolve /\ IdleRow
    /\ \E recs \in SeqsUpTo(CellRecords, MaxCellRecords) :
          /\ recs # <<>>
          /\ zbd_data = (KovalS :> recs)
    /\ pib_index = (normalize_pib(KovalS) :> KovalS)
    /\ \E d \in MonthDays(1) : dates = << <<FirstDayCol, d>> >>
    /\ errors = <<>> /\ fill = EmptyDict

NextCell ==
    \/ \E cells \in [DayCols(dates) -> CellValues] : CheckTabelRow(<<"Koval">>, cells)
    \/ CheckTabelEnd

SpecCell == InitCell /\ [][NextCell]_vars

-----------------------------------------------------------------------------
(* Specification SpecRun: one run of main: the existence checks, the log   *)
(* file, _load_config, _parse_zbd_word for each document, then the sheet:  *)
(* its header, its rows, the save; and the exit of the process.            *)

HeaderRow == << <<"provedeno", " ", "rotatsiiu", " ", "Mario-1">> >>

\* a day table: a position header row, then a row of arrivals
ArrivalTable(event_date, name) ==
    [date |-> event_date,
     rows |-> << HeaderRow, << <<"pribuly:">>, name >> >>]

DocSet ==
    { [file |-> "zbd_liutyi", name_month |-> 2, raises |-> "no",
       tables |-> << ArrivalTable(FirstDayOfMonth(1), KovalS) >>],
      [file |-> "zbd_a", name_month |-> NoMonth, raises |-> "no",
       tables |-> << ArrivalTable(NoDate, KovalS),
                     ArrivalTable(FirstDayOfMonth(2), KovalM) >>],
      [file |-> "zbd_bad", name_month |-> NoMonth, raises |-> "open",
       tables |-> <<>>],
      [file |-> "zbd_late", name_month |-> NoMonth, raises |-> "late",
       tables |-> << ArrivalTable(FirstDayOfMonth(1) + 1, <<"Boiko">>) >>] }

InitRun ==
    /\ pc = "main"
    /\ word_files \in SeqsUpTo(DocSet, MaxDocs)
    /\ name_col = <<>>
    /\ doc_idx = 1 /\ config_state = "unset" /\ faults = {}
    /\ log = <<>> /\ handles = {} /\ exit_status = NotExited
    /\ position_payments = EmptyDict /\ check_month = NoMonth
    /\ IdleRun /\ IdleParse /\ IdlePib /\ IdlePay /\ IdleResolve

\* print through _log_print
Printed(line) == log' = Append(log, line)

\* main up to the call of check_files: the arguments and the files are
\* checked (sys.exit(1)), then the log file is opened
RunMain(missing) ==
    /\ pc = "main"
    /\ IF word_files = <<>> \/ missing # "none"
       THEN /\ pc' = "exited"
            /\ exit_status' = ExitOne
            /\ Printed([kind |-> "usage", what |-> IF word_files = <<>>
                                                  THEN "no_word_files" ELSE missing])
            /\ faults' = faults \cup {IF word_files = <<>> THEN "no_word_files"
                                                            ELSE missing}
            /\ UNCHANGED handles
       ELSE /\ pc' = "config"
            /\ handles' = handles \cup {"log"}
            /\ Printed([kind |-> "log_file"])
            /\ UNCHANGED <<exit_status, faults>>
    /\ UNCHANGED <<word_files, name_col, doc_idx, config_state>>
    /\ UNCHANGED <<parseVars, cfgVars, runVars, pibVars, payVars, resVars>>

\* check_files, lines 156-161, and _load_config
RunLoadConfig(outcome) ==
    /\ pc = "config"
    /\ pc' = "docs"
    /\ CASE outcome = "none" ->           \* no config_excel was given
               /\ config_state' = "none"
               /\ UNCHANGED <<position_payments, handles, faults, log>>
         [] outcome = "ok" ->              \* loaded, and the workbook closed
               /\ config_state' = "loaded"
               /\ position_payments' = Config
               /\ Printed([kind |-> "config_loaded"])
               /\ UNCHANGED <<handles, faults>>
         [] outcome = "open_fails" ->      \* load_workbook raises
               /\ config_state' = "failed"
               /\ faults' = faults \cup {"config_unreadable"}
               /\ Printed([kind |-> "config_error"])
               /\ UNCHANGED <<position_payments, handles>>
         [] outcome = "row_fails" ->       \* a row has no column C: row[2] raises
               /\ config_state' = "failed"
               /\ faults' = faults \cup {"config_malformed"}
               /\ handles' = handles \cup {"wb_config"}
               /\ Printed([kind |-> "config_error"])
               /\ UNCHANGED position_payments
    /\ UNCHANGED <<exit_status, word_files, name_col, doc_idx, check_month>>
    /\ UNCHANGED <<parseVars, runVars, pibVars, payVars, resVars>>

\* check_files, lines 164-166: _parse_zbd_word for the next document
RunParseZbdWord ==
    /\ pc = "docs"
    /\ doc_idx <= Len(word_files)
    /\ LET doc == word_files[doc_idx]
           r == parse_zbd_word([zbd |-> zbd_data, idx |-> pib_index,
                                month |-> check_month, errors |-> errors],
                               doc, position_payments)
       IN  /\ zbd_data' = r.zbd
           /\ pib_index' = r.idx
           /\ check_month' = r.month
           /\ errors' = r.errors
           /\ faults' = IF doc.raises = "no" THEN faults
                        ELSE faults \cup {"doc_unreadable"}
           /\ Printed([kind |-> "doc", file |-> doc.file])
    /\ doc_idx' = doc_idx + 1
    /\ UNCHANGED <<pc, position_payments, dates, rowVars, fill, handles, exit_status,
                   word_files, name_col, config_state>>
    /\ UNCHANGED <<parseVars, pibVars, payVars, resVars>>

\* the header of the sheet, lines 574-593: day numbers give dates of the
\* period when it is set and nothing when it is not; literal dates (of the
\* month literal_month, NoMonth when the header holds day numbers) are taken
\* as they are
header_dates(literal_month, n_cols, month) ==
    IF literal_month = NoMonth
    THEN IF month = NoMonth THEN <<>> ELSE build_dates(n_cols, month)
    ELSE build_dates(n_cols, literal_month)

\* main when check_files returned {'success': False}: sys.exit(1), and the
\* finally clause closes the log file
ExitFailed(fault, still_open) ==
    /\ pc' = "exited"
    /\ exit_status' = ExitOne
    /\ faults' = faults \cup {fault}
    /\ handles' = (handles \cup still_open) \ {"log"}
    /\ Printed([kind |-> "fatal", what |-> fault])

\* check_files, lines 170-175, and _check_tabel up to its loop
RunOpenTabel(outcome, literal_month) ==
    /\ pc = "docs"
    /\ doc_idx > Len(word_files)
    /\ CASE outcome = "tabel_unreadable" ->     \* load_workbook(excel_file) raises
               /\ ExitFailed("tabel_unreadable", {})
               /\ UNCHANGED <<dates, row_num>>
         [] outcome = "result_unreadable" ->    \* the second load_workbook raises
               /\ ExitFailed("tabel_unreadable", {"wb_tabel"})
               /\ dates' = header_dates(literal_month, TabelDayCols, check_month)
               /\ UNCHANGED row_num
         [] outcome = "ok" ->
               /\ pc' = "tabel"
               /\ handles' = handles \cup {"wb_tabel", "wb_result"}
               /\ dates' = header_dates(literal_month, TabelDayCols, check_month)
               /\ row_num' = 2
               /\ Printed([kind |-> "tabel", dates |-> Len(dates'),
                           people |-> Cardinality(DOMAIN zbd_data)])
               /\ UNCHANGED <<exit_status, faults>>
    /\ UNCHANGED <<zbdVars, errors, row_pib, row_cells, found_pib, person_records,
                   resolve_calls, fill, cfgVars, word_files, name_col, doc_idx, config_state>>
    /\ UNCHANGED <<parseVars, pibVars, payVars, resVars>>

\* the loop of _check_tabel meets an empty name cell: the result is saved,
\* check_files prints the counts and returns, main ends
RunCheckTabelEnd(outcome) ==
    /\ pc = "tabel"
    /\ CASE outcome = "save_fails" ->           \* wb_result.save raises
               ExitFailed("output_unwritable", {})
         [] outcome = "ok" ->
               /\ pc' = "exited"
               /\ exit_status' = ExitZero
               /\ handles' = handles \ {"wb_result", "wb_tabel", "log"}
               /\ Printed([kind |-> "summary", errors |-> Len(errors), warnings |-> 0])
               /\ UNCHANGED faults
    /\ UNCHANGED <<word_files, name_col, doc_idx, config_state>>
    /\ UNCHANGED <<parseVars, cfgVars, runVars, pibVars, payVars, resVars>>

RunRowNames == { KovalS, <<"Boiko">> }

NextRun ==
    \/ \E missing \in {"none", "excel_missing", "word_missing", "config_missing"} :
          RunMain(missing)
    \/ \E outcome \in {"none", "ok", "open_fails", "row_fails"} : RunLoadConfig(outcome)
    \/ RunParseZbdWord
    \/ \E outcome \in {"ok", "tabel_unreadable", "result_unreadable"} :
          \E literal_month \in {NoMonth, 1} : RunOpenTabel(outcome, literal_month)
    \/ \E name \in RunRowNames : \E cells \in RowContents(dates) :
          CheckTabelRow(name, cells)
    \/ \E outcome \in {"ok", "save_fails"} : RunCheckTabelEnd(outcome)

SpecRun == InitRun /\ [][NextRun]_vars

-----------------------------------------------------------------------------
(* Specification SpecTables: the configuration is loaded, then the day     *)
(* tables of the documents are parsed: tables with and without a position  *)
(* header row, shelling rows, and a configuration whose shelling key is    *)
(* written with a capital letter                                           *)

\* the configuration sheet with the key "Obstril" in place of "obstril"
ConfigCapital ==
    [p \in {"Mario-1", "rvp", "vidp", "Obstril"} |->
        IF p = "Obstril" THEN Config["obstril"] ELSE Config[p]]

\* a day table without a position header row: free text, then arrivals
HeadlessTable(event_date, name) ==
    [date |-> event_date,
     rows |-> << << <<"shtab", " ", "Koval">> >>, << <<"pribuly:">>, name >> >>]

\* a day table with the given header row, then a row that holds a
\* "perebuvaly:" section followed by a section of arrivals
PerebuvalyTable(event_date, header, name, arrived) ==
    [date |-> event_date,
     rows |-> << header,
                 << <<"perebuvaly:">>, name, <<"pribuly:">>, arrived >> >>]

TableDocSet ==
    { [file |-> "zbd_reset", name_month |-> NoMonth, raises |-> "no",
       tables |-> << ArrivalTable(FirstDayOfMonth(1), KovalS),
                     HeadlessTable(FirstDayOfMonth(1) + 1, <<"Boiko">>) >>],
      [file |-> "zbd_text", name_month |-> NoMonth, raises |-> "no",
       tables |-> << HeadlessTable(FirstDayOfMonth(1), KovalM) >>],
      [file |-> "zbd_shelling", name_month |-> NoMonth, raises |-> "no",
       tables |-> << PerebuvalyTable(FirstDayOfMonth(1), << <<"Obstril">> >>,
                                     KovalS, <<"Boiko">>) >>],
      [file |-> "zbd_post", name_month |-> NoMonth, raises |-> "no",
       tables |-> << PerebuvalyTable(FirstDayOfMonth(1) + 1, HeaderRow,
                                     KovalM, <<"Boiko">>) >>] }

\* the state at the call of check_files
InitTables ==
    /\ pc = "config"
    /\ word_files \in SeqsUpTo(TableDocSet, MaxDocs)
    /\ name_col = <<>>
    /\ doc_idx = 1 /\ config_state = "unset" /\ faults = {}
    /\ log = << [kind |-> "log_file"] >> /\ handles = {"log"}
    /\ exit_status = NotExited
    /\ position_payments = EmptyDict /\ check_month = NoMonth
    /\ IdleRun /\ IdleParse /\ IdlePib /\ IdlePay /\ IdleResolve

\* _load_config on a readable sheet that holds the rows of `sheet`
TablesLoadConfig(sheet) ==
    /\ pc = "config"
    /\ pc' = "docs"
    /\ config_state' = "loaded"
    /\ position_payments' = sheet
    /\ Printed([kind |-> "config_loaded"])
    /\ UNCHANGED <<handles, faults, exit_status, word_files, name_col, doc_idx, check_month>>
    /\ UNCHANGED <<parseVars, runVars, pibVars, payVars, resVars>>

NextTables ==
    \/ \E sheet \in {Config, ConfigCapital} : TablesLoadConfig(sheet)
    \/ RunParseZbdWord

SpecTables == InitTables /\ [][NextTables]_vars

-----------------------------------------------------------------------------
(* Specification SpecHeader: the documents are parsed, then the sheet is   *)
(* checked; its header holds the day numbers 1, 2, ... in as many columns  *)
(* as the longest month has days                                           *)

\* the day columns of the sheet: one more than the month of the model has
\* days (the sheet has 31 day columns, the month may have 30)
HeaderWidths == { TabelDayCols, MonthLen, MonthLen + 1 }

\* the state at the loop over the documents, the configuration loaded
InitHeader ==
    /\ pc = "docs"
    /\ word_files \in SeqsUpTo(DocSet, MaxDocs) \ { <<>> }
    /\ name_col = <<>>
    /\ doc_idx = 1 /\ config_state = "loaded" /\ faults = {}
    /\ log = << [kind |-> "log_file"], [kind |-> "config_loaded"] >>
    /\ handles = {"log"} /\ exit_status = NotExited
    /\ position_payments = Config /\ check_month = NoMonth
    /\ IdleRun /\ IdleParse /\ IdlePib /\ IdlePay /\ IdleResolve

\* check_files, lines 170-175, and _check_tabel up to its loop, for a sheet
\* whose first n_cols day columns are headed 1, 2, ..., n_cols
OpenTabelHeader(n_cols) ==
    /\ pc = "docs"
    /\ doc_idx > Len(word_files)
    /\ pc' = "tabel"
    /\ handles' = handles \cup {"wb_tabel", "wb_result"}
    /\ dates' = header_dates(NoMonth, n_cols, check_month)
    /\ row_num' = 2
    /\ Printed([kind |-> "tabel", dates |-> Len(dates'),
                people |-> Cardinality(DOMAIN zbd_data)])
    /\ UNCHANGED <<exit_status, faults>>
    /\ UNCHANGED <<zbdVars, errors, row_pib, row_cells, found_pib, person_records,
                   resolve_calls, fill, cfgVars, word_files, name_col, doc_idx, config_state>>
    /\ UNCHANGED <<parseVars, pibVars, payVars, resVars>>

NextHeader ==
    \/ RunParseZbdWord
    \/ \E n_cols \in HeaderWidths : OpenTabelHeader(n_cols)
    \/ \E name \in RunRowNames : \E cells \in RowContents(dates) :
          CheckTabelRow(name, cells)
    \/ \E outcome \in {"ok", "save_fails"} : RunCheckTabelEnd(outcome)

SpecHeader == InitHeader /\ [][NextHeader]_vars

-----------------------------------------------------------------------------
(* Specification SpecSheet: a run on a sheet whose column C is kept in      *)
(* name_col: the names of the rows 2, 3, ..., empty cells among them; the   *)
(* cells below the kept ones are empty                                      *)

MaxSheetRows == 3

SheetNames == { <<>>, KovalS, <<"Boiko">> }

\* mutant: empty name cells are passed over
NameCell_SkipEmpty(row) ==
    LET below == { k \in (row - 1)..Len(name_col) : name_col[k] # <<>> }
    IN  IF below = {} THEN <<>> ELSE name_col[SetMin(below)]

\* ws.cell(row_num, 3).value
NameCell(row) ==
    IF row - 1 <= Len(name_col) THEN name_col[row - 1] ELSE <<>>

InitSheet ==
    /\ pc = "docs"
    /\ word_files \in { << doc >> : doc \in DocSet }
    /\ name_col \in SeqsUpTo(SheetNames, MaxSheetRows)
    /\ doc_idx = 1 /\ config_state = "loaded" /\ faults = {}
    /\ log = << [kind |-> "log_file"], [kind |-> "config_loaded"] >>
    /\ handles = {"log"} /\ exit_status = NotExited
    /\ position_payments = Config /\ check_month = NoMonth
    /\ IdleRun /\ IdleParse /\ IdlePib /\ IdlePay /\ IdleResolve

\* a round of the loop of _check_tabel on the row row_num of the sheet
SheetRow(cells) == CheckRow(NameCell(row_num), cells)

\* `if not pib: break`, then the save and the end of the run
SheetEnd(outcome) ==
    /\ NameCell(row_num) = <<>>
    /\ RunCheckTabelEnd(outcome)

NextSheet ==
    \/ RunParseZbdWord
    \/ \E outcome \in {"ok", "tabel_unreadable", "result_unreadable"} :
          \E literal_month \in {NoMonth, 1} : RunOpenTabel(outcome, literal_month)
    \/ \E cells \in RowContents(dates) : SheetRow(cells)
    \/ \E outcome \in {"ok", "save_fails"} : SheetEnd(outcome)

SpecSheet == InitSheet /\ [][NextSheet]_vars

\* the position of the one thread of the program
control == <<pc, doc_idx, row_num>>

\* what a step of NextSheet does to the position of the thread: every step
\* of NextSheet is a step of ControlStep that changes control, and
\* ControlStep is enabled exactly where NextSheet is
ControlStep ==
    \/ /\ pc = "docs" /\ doc_idx <= Len(word_files)
       /\ doc_idx' = doc_idx + 1 /\ UNCHANGED <<pc, row_num>>
    \/ /\ pc = "docs" /\ doc_idx > Len(word_files)
       /\ \/ pc' = "exited" /\ UNCHANGED <<doc_idx, row_num>>
          \/ pc' = "tabel" /\ row_num' = 2 /\ UNCHANGED doc_idx
    \/ /\ pc = "tabel" /\ NameCell(row_num) # <<>>
       /\ row_num' = row_num + 1 /\ UNCHANGED <<pc, doc_idx>>
    \/ /\ pc = "tabel" /\ NameCell(row_num) = <<>>
       /\ pc' = "exited" /\ UNCHANGED <<doc_idx, row_num>>

\* the interpreter runs the one thread of the program till it exits: the
\* thread does not stop while it has a step to take
SpecSheetFair == SpecSheet /\ WF_control(ControlStep)

-----------------------------------------------------------------------------
(* Specification SpecPib: _normalize_pib applied once and twice *)

PibAlphabet == {" ", "TAB", "starshyi", "Serzhant", "maior", "Koval"}


InitPib ==
    /\ IdleExt
    /\ pc = "pib"
    /\ pib_in \in SeqsUpTo(PibAlphabet, MaxPibLen)
    /\ pib_out = Blank /\ pib_out2 = Blank
    /\ pay_in = None /\ pay_out = None /\ pay_out2 = None
    /\ IdleResolve /\ IdleConfig /\ IdleRun

NormalizePib ==
    /\ pc = "pib"
    /\ pib_out' = normalize_pib(pib_in)
    /\ pc' = "pib_once"
    /\ UNCHANGED <<pib_in, pib_out2, payVars, resVars, cfgVars, runVars>>
    /\ UNCHANGED extVars

NormalizePibAgain ==
    /\ pc = "pib_once"
    /\ pib_out2' = normalize_pib(pib_out)
    /\ pc' = "pib_twice"
    /\ UNCHANGED <<pib_in, pib_out, payVars, resVars, cfgVars, runVars>>
    /\ UNCHANGED extVars

NextPib == NormalizePib \/ NormalizePibAgain

SpecPib == InitPib /\ [][NextPib]_vars

-----------------------------------------------------------------------------
(* Specification SpecPay: _normalize_payment_value applied once and twice *)

PayAlphabet == {" ", "b", "cV", "P", "3", "h_line_below"}

InitPay ==
    /\ IdleExt
    /\ pc = "pay"
    /\ pay_in \in SeqsUpTo(PayAlphabet, MaxPayLen) \cup {None}
    /\ pay_out = None /\ pay_out2 = None
    /\ pib_in = Blank /\ pib_out = Blank /\ pib_out2 = Blank
    /\ IdleResolve /\ IdleConfig /\ IdleRun

NormalizePayment ==
    /\ pc = "pay"
    /\ pay_out' = normalize_payment_value(pay_in)
    /\ pc' = "pay_once"
    /\ UNCHANGED <<pay_in, pay_out2, pibVars, resVars, cfgVars, runVars>>
    /\ UNCHANGED extVars

NormalizePaymentAgain ==
    /\ pc = "pay_once"
    /\ pay_out2' = normalize_payment_value(pay_out)
    /\ pc' = "pay_twice"
    /\ UNCHANGED <<pay_in, pay_out, pibVars, resVars, cfgVars, runVars>>
    /\ UNCHANGED extVars

NextPay == NormalizePayment \/ NormalizePaymentAgain

SpecPay == InitPay /\ [][NextPay]_vars

-----------------------------------------------------------------------------
(* Claims about _normalize_pib (under SpecPib) *)

StartsWithRank(s) ==
    \E i \in 1..Len(ranks) : IsPrefix(LowerName(ranks[i]), LowerName(s))

\* a name in collapsed form: single spaces only, none at either end
IsCollapsed(s) ==
    /\ \A i \in 1..Len(s) : s[i] # "TAB"
    /\ \A i \in 1..(Len(s) - 1) : ~(s[i] = " " /\ s[i + 1] = " ")
    /\ s # <<>> => (s[1] # " " /\ s[Len(s)] # " ")

\* C8 (as claimed): name normalization is idempotent, for every string x
\* _normalize_pib(_normalize_pib(x)) = _normalize_pib(x).
C8_NormalizePibIdempotent ==
    pc = "pib_twice" => pib_out2 = pib_out

\* C8 (amended): _normalize_pib(_normalize_pib(x)) = _normalize_pib(x) exactly
\* when _normalize_pib(x) does not itself start with a rank of the vocabulary;
\* when it does, the second application removes one more rank.
C8_IdempotentUnlessRankRemains ==
    pc = "pib_twice" =>
        /\ (pib_out2 = pib_out) <=> ~StartsWithRank(pib_out)
        /\ StartsWithRank(pib_out) => NameLen(pib_out2) < NameLen(pib_out)

C8_Witness ==
    /\ pc = "pib_twice"
    /\ pib_in = <<"Serzhant", " ", "Koval">>
    /\ pib_out = <<"Koval">>
    /\ pib_out2 = pib_out

-----------------------------------------------------------------------------
(* Claims about _normalize_payment_value (under SpecPay) *)

\* the other spelling of a character: Latin homoglyph <-> Cyrillic, other case
TwinChar(ch) ==
    CASE ch = "b" -> "cV" [] ch = "cV" -> "b"
      [] ch = "P" -> "cR" [] ch = "3" -> "cZ"
      [] OTHER -> ch

\* C10: payment normalization is total and idempotent: for every input the
\* result is a string or null, normalizing the result again changes nothing,
\* and a value and its homoglyph / other-case spelling normalize alike.
C10_PaymentTotalIdempotent ==
    /\ pc \in {"pay_once", "pay_twice"} =>
         /\ pay_out = None \/ (pay_out # <<>> /\ pay_out \in Seq(STRING))
         /\ pay_in # None =>
              normalize_payment_value([i \in 1..Len(pay_in) |-> TwinChar(pay_in[i])])
                = pay_out
    /\ pc = "pay_twice" => pay_out2 = pay_out

-----------------------------------------------------------------------------
(* Claims about _get_expected_payment (under SpecResolve) *)

PaymentOf(position) == lookup_payment(position, position_payments)

ShellingOn(d) ==
    { i \in 1..Len(records) :
        records[i].block = "obstril" /\ records[i].date_arrival = d }

NavigatorOn(d) ==
    { i \in 1..Len(records) :
        records[i].block = "shturman" /\ records[i].date_arrival = d }

\* records i of kind Arrived / Departed whose own date or open end reaches d
OpenArrivalCovering(d) ==
    { i \in 1..Len(records) :
        /\ records[i].block = "pribuv" /\ records[i].date_arrival <= d
        /\ \A j \in 1..Len(records) :
              ~(records[j].block = "vybuv"
                /\ records[j].position = records[i].position) }

\* C1: the passes run in strict priority order: a Shelling record dated D
\* decides the result (the first such record's position); otherwise a
\* Navigator record dated D decides it; only otherwise the result comes from
\* an arrival/departure record, or is null.
C1_PriorityOrder ==
    pc = "resolved" =>
        LET sh == ShellingOn(check_date)
            nv == NavigatorOn(check_date)
        IN  /\ sh # {} => expected = PaymentOf(records[SetMin(sh)].position)
            /\ (sh = {} /\ nv # {}) =>
                  expected = PaymentOf(records[SetMin(nv)].position)
            /\ (sh = {} /\ nv = {}) =>
                  \/ expected = NoPayment
                  \/ \E i \in 1..Len(records) :
                        /\ records[i].block \in {"pribuv", "vybuv"}
                        /\ expected = PaymentOf(records[i].position)

\* a Shelling record for one position dated D, listed after an open Arrived
\* interval of another position with another payment that covers D
C1_Witness ==
    /\ pc = "resolved"
    /\ \E s \in ShellingOn(check_date) : \E a \in OpenArrivalCovering(check_date) :
          /\ a < s
          /\ PaymentOf(records[a].position) # PaymentOf(records[s].position)
          /\ expected = PaymentOf(records[s].position)

\* C2: with only Arrived(P, D1) and Departed(P, D2), D1 < D2, in either list
\* order, the result is paymentOf(P) on every date of [D1, D2] and null on
\* every other date of the month.
C2_IntervalInference ==
    pc = "resolved" =>
        \A p \in ResolvePositions : \A d1, d2 \in MonthDays(check_month) :
            ( /\ d1 < d2
              /\ records \in { <<Rec(p, "pribuv", d1), Rec(p, "vybuv", d2)>>,
                               <<Rec(p, "vybuv", d2), Rec(p, "pribuv", d1)>> } )
            => expected = IF d1 <= check_date /\ check_date <= d2
                          THEN PaymentOf(p) ELSE NoPayment

\* the departure is listed first and the date lies strictly inside [D1, D2]
C2_Witness ==
    /\ pc = "resolved"
    /\ Len(records) = 2
    /\ records[1].block = "vybuv" /\ records[2].block = "pribuv"
    /\ records[1].position = records[2].position
    /\ records[2].date_arrival < check_date
    /\ check_date < records[1].date_departure
    /\ expected = PaymentOf(records[1].position)
    /\ expected # NoPayment

-----------------------------------------------------------------------------
(* Claims about the reconciliation driver *)

\* a step that handles one row of the sheet
RowStep == pc = "tabel" /\ row_num' = row_num + 1

\* what that step appended to self.errors
NewErrors == SubSeq(errors', Len(errors) + 1, Len(errors'))

FillAt(f, row, col) == IF <<row, col>> \in DOMAIN f THEN f[<<row, col>>] ELSE NoFill

\* normalized expected and actual code of day column i of the row just handled
ExpectedAt(recs, i) ==
    normalize_payment_value(
        get_expected_payment(recs, dates[i][2], check_month, position_payments))

ActualAt(cells, i) == normalize_payment_value(cells[dates[i][1]])

\* the diagnostics among errs that speak of the date of day column i
MismatchesAt(errs, i) ==
    { k \in 1..Len(errs) : errs[k].kind = "mismatch" /\ errs[k].date = dates[i][2] }

\* C3: when the normalized expected code of a cell is 'Р' or 'ЗВР', no
\* mismatch is recorded for the cell whatever it holds: no diagnostic is
\* appended and the cell gets no mismatch tint.
C3_SentinelNeverMismatch ==
    [][ (RowStep /\ found_pib' # None) =>
          \A i \in 1..Len(dates) :
             ExpectedAt(person_records', i) \in Sentinels =>
                /\ MismatchesAt(NewErrors, i) = {}
                /\ FillAt(fill', row_num, dates[i][1]) = FillAt(fill, row_num, dates[i][1])
                /\ FillAt(fill', row_num, dates[i][1]) # Red ]_vars

\* a sentinel is expected and the cell holds another, non-blank code
C3_Witness ==
    /\ pc = "tabel" /\ row_num = 3 /\ found_pib # None
    /\ \E i \in 1..Len(dates) :
          /\ ExpectedAt(person_records, i) \in Sentinels
          /\ ActualAt(row_cells, i) \in MustExplain
          /\ FillAt(fill, 2, dates[i][1]) = NoFill
    /\ errors = <<>>

\* when a mismatch is due for a cell whose expected code is E and actual A
MismatchDue(E, A) ==
    \/ E # None /\ E # A
    \/ E = None /\ A \in MustExplain

\* C4: for a found person and a cell whose normalized expected code E is not
\* a sentinel, a mismatch is recorded (mismatch tint and exactly one
\* diagnostic) if and only if E is non-null and differs from the actual
\* code A, or E is null and A is 'Б' or 'Н'; otherwise nothing is appended.
C4_MismatchExactlyWhenDue ==
    [][ (RowStep /\ found_pib' # None) =>
          \A i \in 1..Len(dates) :
             LET E == ExpectedAt(person_records', i)
                 A == ActualAt(row_cells', i)
                 diags == MismatchesAt(NewErrors, i)
                 tint == FillAt(fill', row_num, dates[i][1])
             IN  E \notin Sentinels =>
                   /\ MismatchDue(E, A) => (Cardinality(diags) = 1 /\ tint = Red)
                   /\ ~MismatchDue(E, A) => (diags = {} /\ tint # Red)
                   /\ (E = A /\ E # None) => tint = Green ]_vars

\* nothing is expected and the cell holds a Latin 'H', that is 'Н'
C4_Witness ==
    /\ pc = "tabel" /\ row_num = 3 /\ found_pib # None
    /\ \E i \in 1..Len(dates) :
          /\ ExpectedAt(person_records, i) = None
          /\ row_cells[dates[i][1]] = <<"H">>
          /\ FillAt(fill, 2, dates[i][1]) = Red
    /\ Len(errors) = 1 /\ errors[1].kind = "mismatch"
    /\ errors[1].actual = <<"cN">>

NotInEventIndex(pib) ==
    pib \notin DOMAIN zbd_data /\ normalize_pib(pib) \notin DOMAIN pib_index

C6_ExactMatchFirst ==
    (pc = "tabel" /\ row_num > 2 /\ row_pib \in DOMAIN zbd_data) =>
        /\ found_pib = row_pib
        /\ person_records = zbd_data[row_pib]
        /\ resolve_calls = Len(dates)
        /\ \A i \in 1..Len(dates) :
              FillAt(fill, row_num - 1, dates[i][1]) =
                 CheckCell(row_pib, dates[i][2],
                           get_expected_payment(zbd_data[row_pib], dates[i][2],
                                                check_month, position_payments),
                           row_cells[dates[i][1]]).fill

\* the exact key and the key the index gives differ, and so do their records
C6_Witness ==
    /\ pc = "tabel" /\ row_num = 3
    /\ row_pib \in DOMAIN zbd_data
    /\ normalize_pib(row_pib) \in DOMAIN pib_index
    /\ pib_index[normalize_pib(row_pib)] # row_pib
    /\ zbd_data[pib_index[normalize_pib(row_pib)]] # zbd_data[row_pib]
    /\ found_pib = row_pib

RecordsOf(recs) == { recs[i] : i \in 1..Len(recs) }

\* C7: a row matched by normalized name is resolved against all records of
\* the person: those extracted under every raw name line whose normalized
\* form equals that of the row.
C7_AllRecordsOfPerson ==
    (pc = "tabel" /\ row_num > 2 /\ row_pib \notin DOMAIN zbd_data
       /\ found_pib # None) =>
        \A k \in DOMAIN zbd_data :
            normalize_pib(k) = normalize_pib(row_pib) =>
                RecordsOf(zbd_data[k]) \subseteq RecordsOf(person_records)

-----------------------------------------------------------------------------
(* Claims about the event extractor *)

\* the chunks of a line that follow its first occurrence of a marker
RECURSIVE AfterMarker(_, _)
AfterMarker(line, marker) ==
    IF line = <<>> THEN <<>>
    ELSE IF LowerChunk(Head(line)) = marker THEN Tail(line)
    ELSE AfterMarker(Tail(line), marker)

\* a text that passes the filters of a body line
IsEntryText(text) ==
    /\ NameLen(text) >= 5
    /\ \A m \in {"pribuly:", "vybuly:", "vodii:", "shturman:", "perebuvaly:",
                  "provedeno", "rotatsiiu"} : ~Contains(LowerName(text), m)

\* C11: text that follows the marker's colon on the marker line is the
\* first body line of the section: when it passes the filters it yields a
\* record of the marker's kind, keyed by that text.
C11_InlineContinuation ==
    pc = "parsed" =>
        \A i \in 1..Len(cell_text) :
            LET line == Strip(cell_text[i])
                trailing == Strip(AfterMarker(line, target_marker(parse_block)))
            IN  (/\ Contains(LowerName(line), target_marker(parse_block))
                 /\ \A j \in 1..(i - 1) :
                       ~Contains(LowerName(cell_text[j]), target_marker(parse_block))
                 /\ IsEntryText(trailing))
                => /\ trailing \in DOMAIN zbd_data
                   /\ \E k \in 1..Len(zbd_data[trailing]) :
                         zbd_data[trailing][k].block = parse_block

-----------------------------------------------------------------------------
(* Claims about a whole run (under SpecRun) *)

DatedTables(doc) == { i \in 1..Len(doc.tables) : doc.tables[i].date # NoDate }

\* C12: the period comes from the month named in the file name when there
\* is one: after a readable first document whose file name names month M,
\* the period month is M, also when its first table is dated in another
\* month.
C12_FileNameMonthFirst ==
    (/\ pc = "docs" /\ doc_idx > 1
     /\ word_files[1].name_month # NoMonth
     /\ word_files[1].raises = "no")
    => check_month = word_files[1].name_month

\* C13: once the reporting period is set, no later step of the run changes
\* it: not the parsing of further tables or documents, not the building of
\* the day columns, not the resolution of a cell.
C13_PeriodNeverChanges ==
    [][ check_month # NoMonth => check_month' = check_month ]_vars

\* the period was set by the first document, a later document is dated in
\* another month, and a row has been resolved
C13_Witness ==
    /\ pc = "tabel" /\ row_num = 3 /\ resolve_calls > 0
    /\ Len(word_files) = 2
    /\ \E i \in DatedTables(word_files[1]) :
          MonthOf(word_files[1].tables[i].date) = check_month
    /\ \E i \in DatedTables(word_files[2]) :
          MonthOf(word_files[2].tables[i].date) # check_month
    /\ word_files[2].raises = "no"

\* the names a document holds in its dated tables
NamesOf(doc) == { doc.tables[i].rows[2][2] : i \in DatedTables(doc) }

\* C14: when reading a document raises, the exception is caught at the
\* file boundary: one entry naming the file is appended to the error list
\* and the run goes on; every later document is parsed and the sheet is
\* reconciled against the records that were extracted.
C14_DocumentFailureIsRecorded ==
    /\ [][ (pc = "docs" /\ doc_idx' = doc_idx + 1
            /\ word_files[doc_idx].raises # "no")
          => /\ pc' = "docs" /\ exit_status' = NotExited
             /\ errors' = Append(errors, [kind |-> "word_error",
                                          file |-> word_files[doc_idx].file]) ]_vars
    /\ [] ( (pc = "tabel" /\ config_state = "loaded")
            => /\ doc_idx = Len(word_files) + 1
               /\ \A j \in 1..Len(word_files) :
                     word_files[j].raises # "open"
                        => NamesOf(word_files[j]) \subseteq DOMAIN zbd_data )

\* the first document could not be opened, the second one was parsed and a
\* person it names was found in the sheet
C14_Witness ==
    /\ pc = "tabel" /\ row_num = 3
    /\ Len(word_files) = 2
    /\ word_files[1].raises = "open" /\ word_files[2].raises = "no"
    /\ Len(errors) = 1 /\ errors[1].kind = "word_error"
    /\ errors[1].file = word_files[1].file
    /\ found_pib \in NamesOf(word_files[2])

RequiredFileFaults ==
    { "excel_missing", "word_missing", "config_missing", "no_word_files",
      "tabel_unreadable", "doc_unreadable", "config_unreadable", "config_malformed" }

\* C15: the process exits with a non-zero status when a required file (the
\* sheet, a listed document, a given configuration) is missing or
\* unreadable, and with status zero when nothing is wrong with the files,
\* whatever the number of diagnostics.
C15_ExitStatus ==
    pc = "exited" =>
        /\ (faults \cap RequiredFileFaults # {}) => exit_status = ExitOne
        /\ faults = {} => exit_status = ExitZero

\* C16: when the run ends, every mismatch and not-found diagnostic of the
\* error list has been written to the log.
C16_DiagnosticsAreLogged ==
    pc = "exited" =>
        \A i \in 1..Len(errors) :
            errors[i].kind \in {"mismatch", "not_found"} =>
                \E k \in 1..Len(log) :
                    /\ log[k].kind = "diagnostic"
                    /\ log[k].entry = errors[i]

\* C17: a configuration that cannot be loaded is fatal: no row of the sheet
\* is reconciled and the process exits with a failure status.
C17_MalformedConfigIsFatal ==
    config_state = "failed" =>
        /\ row_num = 2
        /\ pc = "exited" => exit_status = ExitOne

\* C18: every file or workbook the run opened is closed when it ends, on
\* every exit path.
C18_HandlesClosedOnExit ==
    pc = "exited" => handles = {}

-----------------------------------------------------------------------------
(* Claims about the interval pass of _get_expected_payment *)

IsInterval(i) == records[i].block \in {"pribuv", "vybuv"}

\* the arrivals of the position of record i not after its departure, and the
\* departures of that position not before its arrival
ArrivalsNotAfter(i) ==
    { records[j].date_arrival : j \in { k \in 1..Len(records) :
        /\ records[k].block = "pribuv"
        /\ records[k].position = records[i].position
        /\ records[k].date_arrival <= records[i].date_departure } }

DeparturesNotBefore(i) ==
    { records[j].date_departure : j \in { k \in 1..Len(records) :
        /\ records[k].block = "vybuv"
        /\ records[k].position = records[i].position
        /\ records[k].date_departure >= records[i].date_arrival } }

\* the interval of record i as the pairing rule gives it
PairedStart(i) ==
    IF records[i].block = "pribuv" THEN records[i].date_arrival
    ELSE IF ArrivalsNotAfter(i) = {} THEN FirstDayOfMonth(check_month)
    ELSE CHOOSE a \in ArrivalsNotAfter(i) : \A b \in ArrivalsNotAfter(i) : b <= a

PairedEnd(i) ==
    IF records[i].block = "vybuv" THEN records[i].date_departure
    ELSE IF DeparturesNotBefore(i) = {} THEN get_last_day_of_month(check_month)
    ELSE CHOOSE a \in DeparturesNotBefore(i) : \A b \in DeparturesNotBefore(i) : a <= b

Covering(d) ==
    { i \in 1..Len(records) :
        IsInterval(i) /\ PairedStart(i) <= d /\ d <= PairedEnd(i) }

NoPriorityOn(d) ==
    \A i \in 1..Len(records) :
        records[i].block \in {"obstril", "shturman"}
            => records[i].date_arrival # d /\ records[i].date_departure # d

\* C19: when no Shelling or Navigator record is dated on the queried date and
\* the intervals of several arrival/departure records contain it, the result
\* is the payment of the position of the earliest such record in extraction
\* order; of two overlapping records of positions with different payments the
\* one extracted first decides.
C19_FirstMatchWins ==
    (pc = "resolved" /\ NoPriorityOn(check_date) /\ Covering(check_date) # {})
        => \E i \in Covering(check_date) :
              /\ \A j \in Covering(check_date) : i <= j
              /\ expected = PaymentOf(records[i].position)

\* two records of positions with different payments whose intervals both
\* hold the date: the first one decides
C19_Witness ==
    /\ pc = "resolved"
    /\ NoPriorityOn(check_date)
    /\ Covering(check_date) = {1, 2}
    /\ PaymentOf(records[1].position) # PaymentOf(records[2].position)
    /\ PaymentOf(records[2].position) # NoPayment
    /\ expected = PaymentOf(records[1].position)

\* C20: each record is paired with its nearest counterpart: a Departed
\* record's interval starts at the latest arrival of the same position not
\* after the departure (the first day of the period if there is none), an
\* Arrived record's interval ends at the earliest departure of the same
\* position not before the arrival (the last day if there is none); so the
\* date resolves to the payment of the position exactly when one of these
\* intervals holds it, and for Arrived D1, Departed D2, Arrived D3, Departed
\* D4 with D1 <= D2 < D3 <= D4 exactly on the days of [D1, D2] and [D3, D4].
C20_NearestCounterpart ==
    pc = "resolved" =>
        /\ Covering(check_date) # {} => expected = PaymentOf(PairingPosition)
        /\ Covering(check_date) = {} => expected = NoPayment
        /\ \A d1, d2, d3, d4 \in MonthDays(check_month) :
              ( /\ d1 <= d2 /\ d2 < d3 /\ d3 <= d4
                /\ records = << Rec(PairingPosition, "pribuv", d1),
                                Rec(PairingPosition, "vybuv", d2),
                                Rec(PairingPosition, "pribuv", d3),
                                Rec(PairingPosition, "vybuv", d4) >> )
              => expected = IF \/ (d1 <= check_date /\ check_date <= d2)
                               \/ (d3 <= check_date /\ check_date <= d4)
                            THEN PaymentOf(PairingPosition) ELSE NoPayment

\* two stays at the position and a date in the gap between them: the second
\* departure has both arrivals before it, the first arrival both departures
\* after it, and the date resolves to null
C20_Witness ==
    /\ pc = "resolved"
    /\ records[1].block = "pribuv" /\ records[2].block = "vybuv"
    /\ records[3].block = "pribuv" /\ records[4].block = "vybuv"
    /\ records[1].date_arrival <= records[2].date_departure
    /\ records[2].date_departure < check_date
    /\ check_date < records[3].date_arrival
    /\ records[3].date_arrival <= records[4].date_departure
    /\ expected = NoPayment

\* C21: the reporting period bounds all interval resolution: for every
\* record list, records dated in other months included, and every date
\* before the first or after the last day of the reporting month, the result
\* is null unless a Shelling or Navigator record is dated on that date.
C21_PeriodBoundsIntervals ==
    ( /\ pc = "resolved"
      /\ \/ check_date < FirstDayOfMonth(check_month)
         \/ check_date > get_last_day_of_month(check_month)
      /\ NoPriorityOn(check_date) )
    => expected = NoPayment

\* a date outside the month that lies between an arrival (or the first day)
\* and a departure (or the last day) of the listed records
C21_Witness ==
    /\ pc = "resolved"
    /\ NoPriorityOn(check_date)
    /\ \/ /\ check_date < FirstDayOfMonth(check_month)
          /\ \E i \in 1..Len(records) :
                records[i].block = "pribuv" /\ records[i].date_arrival <= check_date
       \/ /\ check_date > get_last_day_of_month(check_month)
          /\ \E i \in 1..Len(records) :
                records[i].block = "vybuv" /\ records[i].date_departure >= check_date
    /\ expected = NoPayment

-----------------------------------------------------------------------------
(* Claims about the sections of a cell (under SpecParse) *)

LineAt(j) == Strip(cell_text[j])

IsBlankLine(j) == LineAt(j) = <<>>

HasTarget(j) == Contains(LowerName(LineAt(j)), target_marker(parse_block))

\* line j lies behind a blank line that follows the marker of the section
\* and no marker of the kind comes between that blank line and line j
BehindBlank(j) ==
    \E i \in 1..Len(cell_text) : \E k \in 1..Len(cell_text) :
        /\ i < k /\ k < j
        /\ HasTarget(i) /\ IsBlankLine(k)
        /\ \A n \in (k + 1)..j : ~HasTarget(n)

OnlyAt(j) == \A n \in 1..Len(cell_text) : LineAt(n) = LineAt(j) => n = j

\* C22: the run of entries of a section ends at a blank line: a name line
\* that comes after a blank line inside the cell is not attributed to the
\* section that preceded the blank line.
C22_BlankLineEndsRun ==
    pc = "parsed" =>
        \A j \in 1..Len(cell_text) :
            (BehindBlank(j) /\ OnlyAt(j)) => LineAt(j) \notin DOMAIN zbd_data

SectionMarkers == {"perebuvaly:", "pribuly:", "vybuly:", "shturman:", "vodii:"}

HasSectionMarker(j) ==
    \E m \in SectionMarkers : Contains(LowerName(LineAt(j)), m)

IsControlPhrase(j) ==
    \/ Contains(LowerName(LineAt(j)), "provedeno")
    \/ Contains(LowerName(LineAt(j)), "rotatsiiu")

\* the lines of the run of the target kind: after the first line with the
\* marker of the kind, before the next line with a section marker, not a
\* control phrase, at least 5 characters long
RunLines ==
    { j \in 1..Len(cell_text) :
        /\ \E f \in 1..(j - 1) :
              /\ HasTarget(f)
              /\ \A n \in 1..(f - 1) : ~HasTarget(n)
              /\ \A n \in (f + 1)..j : ~HasSectionMarker(n)
        /\ ~IsControlPhrase(j)
        /\ NameLen(LineAt(j)) >= 5 }

\* C23: one call produces exactly one record for each line of the run of the
\* target kind; lines before the first marker, control phrases and lines
\* shorter than 5 characters produce none; the returned count is the number
\* of records added.
C23_OneRecordPerRunLine ==
    pc = "parsed" =>
        /\ found_count = Cardinality(RunLines)
        /\ DOMAIN zbd_data = { LineAt(j) : j \in RunLines }
        /\ \A pib \in DOMAIN zbd_data :
              /\ Len(zbd_data[pib]) = Cardinality({ j \in RunLines : LineAt(j) = pib })
              /\ \A n \in 1..Len(zbd_data[pib]) :
                    zbd_data[pib][n] = Rec(ParsePosition, parse_block, ParseDate)

-----------------------------------------------------------------------------
(* Claims about the sections of a cell (under SpecSections) *)

\* line c holds a marker other than the target one and follows a line with
\* the target marker: it closes the run of the target kind
ClosesRun(c) ==
    /\ ~HasTarget(c)
    /\ \E m \in {"pribuly:", "vybuly:", "vodii:", "shturman:"} :
          Contains(LowerName(LineAt(c)), m)
    /\ \E f \in 1..(c - 1) : HasTarget(f)

ArrivalsDeparturesCell ==
    << <<"pribuly:">>, <<"Serzhant", " ", "Koval">>,
       <<"vybuly:">>,  <<"Boiko">>,
       <<"pribuly:">>, <<"Boiko">> >>

\* C29: once the run of the target kind has been closed by a line with a
\* different marker, no later line of the cell yields a record of that kind,
\* even if the target marker occurs again: every record comes from a line
\* before the closing one; of "pribuly: / A / vybuly: / B / pribuly: / C"
\* only A becomes an Arrived record.
C29_OneRunPerKind ==
    pc = "parsed" =>
        /\ \A c \in 1..Len(cell_text) :
              ClosesRun(c) =>
                 \A pib \in DOMAIN zbd_data :
                    Len(zbd_data[pib]) <=
                       Cardinality({ j \in 1..(c - 1) : LineAt(j) = pib })
        /\ (cell_text = ArrivalsDeparturesCell /\ parse_block = "pribuv")
              => zbd_data = (<<"Serzhant", " ", "Koval">> :>
                               << Rec(ParsePosition, "pribuv", ParseDate) >>)

\* the target marker occurs again after the closing line, followed by a name
C29_Witness ==
    /\ pc = "parsed"
    /\ \E c \in 1..Len(cell_text) : \E t \in 1..Len(cell_text) :
          /\ ClosesRun(c) /\ c < t /\ HasTarget(t)
          /\ t < Len(cell_text)
          /\ LineAt(t + 1) = <<"Boiko">>
          /\ <<"Boiko">> \notin DOMAIN zbd_data
    /\ found_count = 1

-----------------------------------------------------------------------------
(* Claims about the day tables of a document (under SpecTables) *)

\* the documents _parse_zbd_word has read
Processed ==
    { j \in 1..Len(word_files) : j < doc_idx /\ word_files[j].raises # "open" }

HeaderRowsUpTo(table, r) ==
    { h \in 1..r : is_position_header(table.rows[h], position_payments) }

\* the current position of a day table at its row r: the key named by the
\* last header row at or above r, none when there is no such row
CurrentPosition(table, r) ==
    IF HeaderRowsUpTo(table, r) = {} THEN NoPosition
    ELSE extract_position(table.rows[SetMax(HeaderRowsUpTo(table, r))],
                          position_payments)

HoldsLine(text, pib) == \E i \in 1..Len(text) : Strip(text[i]) = pib

\* the rows of the dated tables of the documents read so far
ReadRows ==
    { <<j, t, r>> \in (1..Len(word_files)) \X (1..MaxEvents) \X (1..MaxEvents) :
        /\ j \in Processed
        /\ t \in DatedTables(word_files[j])
        /\ r \in 1..Len(word_files[j].tables[t].rows) }

TableAt(x) == word_files[x[1]].tables[x[2]]

RowAt(x) == TableAt(x).rows[x[3]]

AllRecords ==
    { <<pib, n>> \in (DOMAIN zbd_data) \X (1..(2 * MaxDocs * MaxEvents)) :
        n <= Len(zbd_data[pib]) }

\* C24: the position of every record of the event index is a key of the
\* position map, so its payment is found; a record is created only from a
\* row of a day table whose current position is that key: never before a
\* header row was seen in the same table, never with free text as position.
C24_PositionsAreConfigKeys ==
    \A x \in AllRecords :
        LET rec == zbd_data[x[1]][x[2]]
        IN  /\ rec.position \in DOMAIN position_payments
            /\ lookup_payment(rec.position, position_payments) # NoPayment
            /\ \E y \in ReadRows :
                  /\ HoldsLine(RowAt(y), x[1])
                  /\ CurrentPosition(TableAt(y), y[3]) = rec.position

\* a table without a header row that follows a table with one: the name
\* under its arrivals marker has no record
C24_Witness ==
    /\ pc = "docs"
    /\ AllRecords # {}
    /\ \E y \in ReadRows :
          /\ y[2] > 1
          /\ HeaderRowsUpTo(TableAt(y), y[3]) = {}
          /\ HeaderRowsUpTo(word_files[y[1]].tables[y[2] - 1], 1) # {}
          /\ TextHas(RowAt(y), "pribuly:")
          /\ HoldsLine(RowAt(y), <<"Boiko">>)
          /\ <<"Boiko">> \notin DOMAIN zbd_data

\* a row the loop handles as a shelling row
IsShellingRow(y) ==
    /\ CurrentPosition(TableAt(y), y[3]) = "obstril"
    /\ TextHas(RowAt(y), "perebuvaly:")

\* C30: Shelling records come only from rows read while the current position
\* is the literal key "obstril" and holding "perebuvaly:"; under any other
\* current position, a key that differs in case included, "perebuvaly:"
\* yields no Shelling record; and a row handled as shelling yields no record
\* of another kind.
C30_ShellingOnlyUnderLiteralKey ==
    \A x \in AllRecords :
        LET rec == zbd_data[x[1]][x[2]]
        IN  IF rec.block = "obstril"
            THEN /\ rec.position = "obstril"
                 /\ \E y \in ReadRows :
                       IsShellingRow(y) /\ HoldsLine(RowAt(y), x[1])
            ELSE \E y \in ReadRows :
                    /\ ~IsShellingRow(y)
                    /\ HoldsLine(RowAt(y), x[1])
                    /\ TextHas(RowAt(y), target_marker(rec.block))

\* a shelling row that also holds an arrivals section was read: the name
\* after "perebuvaly:" has a Shelling record, the name after "pribuly:" has no
\* record
C30_Witness ==
    /\ pc = "docs"
    /\ \E y \in ReadRows :
          /\ IsShellingRow(y)
          /\ TextHas(RowAt(y), "pribuly:")
          /\ HoldsLine(RowAt(y), <<"Boiko">>)
          /\ <<"Boiko">> \notin DOMAIN zbd_data
    /\ \E x \in AllRecords : zbd_data[x[1]][x[2]].block = "obstril"

-----------------------------------------------------------------------------
(* Claims about the day columns of the sheet (under SpecHeader) *)

\* C25: every day column built from an integer header d is dated day d of
\* the reporting month; no such column is dated outside the reporting month,
\* also when d exceeds the number of days of the month.
C25_DayColumnsInsidePeriod ==
    (pc = "tabel" /\ check_month # NoMonth) =>
        \A i \in 1..Len(dates) :
            LET d == dates[i][1] - FirstDayCol + 1
            IN  /\ FirstDayOfMonth(check_month) <= dates[i][2]
                /\ dates[i][2] <= get_last_day_of_month(check_month)
                /\ d <= MonthLen => dates[i][2] = FirstDayOfMonth(check_month) + d - 1

-----------------------------------------------------------------------------
(* Claims about a reconciliation pass (under SpecRun) *)

-----------------------------------------------------------------------------
(* Claims about the loop over the rows of the sheet (under SpecSheetFair) *)

\* index in name_col of the first empty name cell
FirstEmpty ==
    IF \E k \in 1..Len(name_col) : name_col[k] = <<>>
    THEN SetMin({ k \in 1..Len(name_col) : name_col[k] = <<>> })
    ELSE Len(name_col) + 1

\* C27: the rows are examined in order from row 2, each once, and the loop
\* stops at the first row whose name cell is empty: no row at or below it is
\* checked or tinted, also when it holds a name; and the loop terminates.
C27_RowsUntilFirstEmptyName ==
    /\ [] ( /\ row_num <= FirstEmpty + 1
            /\ \A x \in DOMAIN fill : x[1] <= FirstEmpty
            /\ exit_status = ExitZero => row_num = FirstEmpty + 1 )
    /\ [][ RowStep => row_pib' = Strip(name_col[row_num - 1]) ]_vars
    /\ <>(pc = "exited")

\* the run ended after a row was handled, and a row below the first empty
\* name cell holds a name
C27_Witness ==
    /\ pc = "exited" /\ exit_status = ExitZero
    /\ row_num > 2
    /\ FirstEmpty < Len(name_col)
    /\ name_col[FirstEmpty + 1] # <<>>
    /\ \A x \in DOMAIN fill : x[1] < row_num

\* the orders of a list of n records
Orders(n) == { f \in [1..n -> 1..n] : \A i, j \in 1..n : f[i] = f[j] => i = j }

Permuted(recs, f) == [i \in 1..Len(recs) |-> recs[f[i]]]

\* every record's position maps to one payment code
OnePaymentCode(recs) ==
    \A i, j \in 1..Len(recs) :
        lookup_payment(recs[i].position, position_payments)
            = lookup_payment(recs[j].position, position_payments)

\* C28: when all of a person's records carry positions that map to the same
\* payment code, _get_expected_payment gives for any date the value it gives
\* for every other order of the record list
C28_OrderOfRecordsIsIrrelevant ==
    pc = "resolved" /\ OnePaymentCode(records)
    => \A f \in Orders(Len(records)) :
          get_expected_payment(Permuted(records, f), check_date, check_month,
                               position_payments) = expected

\* an arrival whose nearest departure stands behind a later one in the list,
\* resolved on a day between the two that no interval holds
C28_Witness ==
    /\ pc = "resolved" /\ OnePaymentCode(records)
    /\ \E a, e1, e2 \in 1..Len(records) :
          /\ records[a].block = "pribuv"
          /\ records[e1].block = "vybuv" /\ records[e2].block = "vybuv"
          /\ records[a].position = records[e1].position
          /\ records[a].position = records[e2].position
          /\ e1 < e2
          /\ records[a].date_arrival <= records[e2].date_departure
          /\ records[e2].date_departure < check_date
          /\ check_date < records[e1].date_departure
    /\ expected = NoPayment

====
